---- MODULE Spec2Model ----
(***************************************************************************)
(* The Python plugin bridge of XRK-Yunzai (lib/multiplugin/python_bridge.py) *)
(* as a state machine: the plugin registry (PluginManager), the message     *)
(* handler and its read/dispatch loop (MessageHandler), and the protocol    *)
(* channel on standard output.                                              *)
(***************************************************************************)
EXTENDS Integers, Sequences, FiniteSets, TLC

\* Number of input lines the host sends in one run.
MaxLines == 3

\* Number of input lines the host of the echo plugin sends in one run.
EchoLines == 4

\* Number of signals delivered to the process in one run.
MaxSignals == 1

\* Number of rules and of tasks a plugin declares.
MaxRules == 2
MaxTasks == 1

\* Number of entries of a plugin root handed to discovery.
MaxEntries == 2

(***************************************************************************)
(* Values of the wire protocol.                                            *)
(***************************************************************************)

\* A field that the JSON object does not carry (dict.get gives None,
\* dict[...] raises KeyError).
Missing == "<missing>"

\* message.get('id'): None when the field is missing (JSON null on output).
IdNone == "null"

\* Correlation ids the host uses: missing, the number 0, the empty string,
\* and an ordinary token.
Ids == {IdNone, "0", "", "1"}

\* Python truthiness of an id, as tested by "if msg_id:".
Truthy(id) == id \notin {IdNone, "0", ""}

\* A result a plugin method returns: a JSON-encodable value carrying the
\* instance's call counter and the call context it saw, or an object that
\* json.dumps cannot encode.
JsonValue(n, ctx) == [kind |-> "json", n |-> n, ctx |-> ctx]
RawObject == [kind |-> "object", n |-> 0, ctx |-> Missing]

\* json.dumps raises TypeError on a value it cannot encode.
Encodable(v) == v.kind = "json"

(***************************************************************************)
(* Plugin types: arbitrary user code behind the PythonPlugin contract.     *)
(* A type is known by its class name; TypeInfo gives what the bridge can   *)
(* observe of it.                                                          *)
(***************************************************************************)

\* Method bodies a plugin may define (see Invoke).
\*   say  : returns normally, counting the calls in the instance
\*   boom : raises an exception whose text is "boom"
\*   raw  : returns an object json.dumps cannot encode

\* A method name no instance exposes.
NoSuchMethod == "nope"

TypeInfo(t) ==
    CASE t = "Echo"   -> [base |-> "PythonPlugin", ctorRaises |-> FALSE,
                          name |-> "Echo", priority |-> 50,
                          methods |-> {"say", "boom", "raw"}]
      [] t = "Other"  -> [base |-> "PythonPlugin", ctorRaises |-> FALSE,
                          name |-> "Other", priority |-> 50,
                          methods |-> {"say"}]
      [] t = "Alpha"  -> [base |-> "PythonPlugin", ctorRaises |-> FALSE,
                          name |-> "Alpha", priority |-> 10,
                          methods |-> {"say"}]
      [] t = "Beta"   -> [base |-> "PythonPlugin", ctorRaises |-> FALSE,
                          name |-> "Beta", priority |-> 20,
                          methods |-> {"say", "boom"}]
      [] t = "Crash"  -> [base |-> "PythonPlugin", ctorRaises |-> TRUE,
                          name |-> "Crash", priority |-> 50,
                          methods |-> {"say"}]
      [] t = "Gamma"  -> [base |-> "PythonPlugin", ctorRaises |-> FALSE,
                          name |-> "Gamma", priority |-> 50,
                          methods |-> {"say"}]
      \* the classes of a later version of echo/index.py
      [] t = "Delta"  -> [base |-> "PythonPlugin", ctorRaises |-> FALSE,
                          name |-> "Delta", priority |-> 50,
                          methods |-> {"say"}]
      [] t = "EchoV2" -> [base |-> "PythonPlugin", ctorRaises |-> FALSE,
                          name |-> "EchoV2", priority |-> 50,
                          methods |-> {"say", "boom"}]
      \* the base class itself, imported into the plugin module
      [] t = "PythonPlugin" -> [base |-> "self", ctorRaises |-> FALSE,
                          name |-> "PythonPlugin", priority |-> 50,
                          methods |-> {}]
      \* classes of plugins/python/example/index.py derive from
      \* bridge.PluginBase, not from python_bridge.PythonPlugin
      [] t \in {"ExamplePlugin", "DataProcessPlugin", "PluginBase"} ->
                         [base |-> "PluginBase", ctorRaises |-> FALSE,
                          name |-> t, priority |-> 50,
                          methods |-> {"say"}]
      \* any other class of a module (PluginRule, ...)
      [] OTHER        -> [base |-> "object", ctorRaises |-> FALSE,
                          name |-> t, priority |-> 50, methods |-> {}]

\* isinstance(attr, type) and issubclass(attr, PythonPlugin) and
\* attr != PythonPlugin
IsPluginClass(t) == TypeInfo(t).base = "PythonPlugin"

(***************************************************************************)
(* The file system the bridge scans.  A root is a sequence of entries in   *)
(* listing order; a directory entry holds its files in listing order; a    *)
(* file holds the classes of its module in dir() order (sorted by name).   *)
(***************************************************************************)

File(name, types, loadFails) ==
    [name |-> name, types |-> types, loadFails |-> loadFails]

Dir(name, files) == [name |-> name, isDir |-> TRUE, files |-> files]

TopFile(name, types) ==
    [name |-> name, isDir |-> FALSE,
     files |-> <<File(name, types, FALSE)>>]

\* The default root of main().
DefaultDir == "plugins/python"

\* A path that does not exist.
NoDir == "nowhere"

ExistingDirs == {DefaultDir, "R1", "R2", "R3"}

Listing(root) ==
    CASE root = DefaultDir ->
           << Dir("example",
                  << File("index.py",
                          <<"DataProcessPlugin", "ExamplePlugin", "PluginBase">>,
                          FALSE),
                     File("test.py",
                          <<"DataAnalysisPlugin", "NLPPlugin", "PluginRule",
                            "PythonPlugin", "WebScraperPlugin">>, FALSE) >>) >>
      [] root = "R1" ->
           << Dir("echo",
                  << File("index.py", <<"Echo", "PythonPlugin">>, FALSE),
                     File("extra.py", <<"Other", "PythonPlugin">>, FALSE) >>),
              Dir("__pycache__",
                  << File("cached.py", <<"Echo">>, FALSE) >>),
              TopFile("top.py", <<"Other">>) >>
      [] root = "R2" ->
           << Dir("multi",
                  << File("__init__.py", <<"Other">>, FALSE),
                     File("a.py", <<"Alpha", "Beta", "PythonPlugin">>, FALSE),
                     File("b.py", <<"Crash", "Gamma", "PythonPlugin">>, FALSE),
                     File("c.py", <<"Other">>, TRUE),
                     File("notes.txt", <<>>, FALSE) >>) >>
      \* R3: a root whose echo/index.py defines other classes than R1's
      [] root = "R3" ->
           << Dir("echo",
                  << File("index.py", <<"Delta", "EchoV2", "PythonPlugin">>,
                          FALSE) >>) >>
      [] OTHER -> << >>

\* str.startswith('__')
StartsWithDunder(name) == name \in {"__pycache__", "__init__.py"}

\* Path.glob("*.py")
IsPyFile(name) == name \in {"index.py", "extra.py", "test.py", "cached.py",
                            "top.py", "__init__.py", "a.py", "b.py", "c.py"}

\* Mutant of the key: the entry file is named without its suffix.
PluginKeyStem(folder, file) ==
    <<folder, IF file = "index.py" THEN "index" ELSE file>>

\* f"{folder_name}/{file_path.name}"
PluginKey(folder, file) == <<folder, file>>

(***************************************************************************)
(* Plugin descriptors (PluginRule, PluginTask, plugin_registered).         *)
(***************************************************************************)

\* Python's None as a field value.
None == "None"

\* Restriction of a record to some of its fields.
Restrict(r, fields) == [f \in fields |-> r[f]]

\* PluginRule(reg=None, fnc="", event="message", log=True, permission="all")
PluginRule(reg, fnc) ==
    [reg |-> reg, fnc |-> fnc, event |-> "message", log |-> "True",
     permission |-> "all"]

\* Mutant of PluginRule.to_dict: every field whose value is false in a
\* condition (None, "", False) is left out.
PluginRuleToDictFalsy(r) ==
    Restrict(r, {f \in DOMAIN r : r[f] \notin {None, "", "False"}})

\* PluginRule.to_dict: asdict() without the fields whose value is None.
PluginRuleToDict(r) == Restrict(r, {f \in DOMAIN r : r[f] # None})

\* PluginTask(cron, fnc, name=None, log=True)
PluginTask(cron, fnc) ==
    [cron |-> cron, fnc |-> fnc, name |-> None, log |-> "True"]

\* PluginTask.to_dict: asdict(), every field kept.
PluginTaskToDict(t) == t

\* self.rule of a plugin type's instance.
RulesOf(t) ==
    CASE t = "Echo"  -> << PluginRule(None, "say"), PluginRule("^boom$", "boom") >>
      [] t = "Alpha" -> << PluginRule("^a$", "say") >>
      [] OTHER       -> << >>

\* self.task of a plugin type's instance.
TasksOf(t) ==
    CASE t = "Echo" -> << PluginTask("0 0 * * * *", "say") >>
      [] OTHER      -> << >>

\* What _send_plugin_registered reads of a transient instance.
Transient(name, priority, rule, task) ==
    [name |-> name, priority |-> priority, bypassThrottle |-> FALSE,
     rule |-> rule, task |-> task]

\* attr(): the transient instance of a plugin type.
TransientOf(t) ==
    Transient(TypeInfo(t).name, TypeInfo(t).priority, RulesOf(t), TasksOf(t))

\* The message _send_plugin_registered(key, instance) builds: the rules
\* and the tasks are serialized one by one, in list order.
SendPluginRegistered(key, instance) ==
    [type |-> "plugin_registered",
     data |-> [key |-> key,
               name |-> instance.name,
               priority |-> instance.priority,
               bypassThrottle |-> instance.bypassThrottle,
               rule |-> [i \in DOMAIN instance.rule |->
                            PluginRuleToDict(instance.rule[i])],
               task |-> [i \in DOMAIN instance.task |->
                            PluginTaskToDict(instance.task[i])]]]

\* The plugin_registered message of a plugin type.
PluginRegistered(key, t) == SendPluginRegistered(key, TransientOf(t))

(***************************************************************************)
(* The protocol channel: standard output, one JSON message per line.       *)
(* An entry of the channel is the message and, as a history tag, the       *)
(* number of the input line whose handling wrote it (0: before any line).  *)
(***************************************************************************)

ReadyMsg == [type |-> "ready"]

\* log_message(message, level)
LogMsg(text, level) ==
    [type |-> "log", data |-> [level |-> level, message |-> text]]

ValueResponse(id, v) == [type |-> "response", id |-> id, data |-> [value |-> v]]

ErrorResponse(id, e) == [type |-> "response", id |-> id, data |-> [error |-> e]]

\* Whether json.dumps(message) succeeds.
MsgEncodable(m) ==
    (m.type = "response" /\ "value" \in DOMAIN m.data) => Encodable(m.data.value)

\* Whether standard output takes what is written to it: it does until the
\* host closes its end of the pipe, and print raises from then on.
VARIABLE stdout_ok

\* Whether print(json.dumps(message), flush=True) succeeds.
Writable(m) == MsgEncodable(m) /\ stdout_ok

\* Mutant of send_message: the new line is written before the earlier ones.
SendMessagePrepend(o, m, line) ==
    IF Writable(m) THEN <<[msg |-> m, line |-> line]>> \o o ELSE o

\* send_message: print(json.dumps(message), flush=True); a failure is caught
\* and reported on stderr only.
SendMessage(o, m, line) ==
    IF Writable(m) THEN Append(o, [msg |-> m, line |-> line]) ELSE o

(***************************************************************************)
(* The diagnostic stream: standard error, where the logger writes          *)
(* (logging.basicConfig) and where send_message reports its own failure.   *)
(***************************************************************************)

\* A record of the logger, by level and text; level "stderr" is a line the
\* bridge writes to sys.stderr itself.
LogRec(level, text) == [level |-> level, text |-> text]

\* logger.error(f"...: {e}") followed by logger.error(traceback.format_exc())
Traced(text) == << LogRec("error", text), LogRec("error", "traceback") >>

\* What send_message writes on the diagnostic stream for a message.
SendFailure(m) ==
    IF Writable(m) THEN << >>
    ELSE << LogRec("stderr", "failed to send message") >>

(***************************************************************************)
(* PluginManager: discovery.                                               *)
(***************************************************************************)

EmptyMap == [k \in {} |-> None]

\* Mutant of the registration: a key once registered keeps its value.
PutIfAbsent(f, k, v) ==
    [x \in DOMAIN f \cup {k} |-> IF x \in DOMAIN f THEN f[x] ELSE v]

\* dict[k] = v
Put(f, k, v) == [x \in DOMAIN f \cup {k} |-> IF x = k THEN v ELSE f[x]]

\* The loop over dir(module) of _load_plugin_file, from the i-th class on.
\* st = [plugins, out, logged]; an exception of the transient construction
\* leaves the loop (it is caught at the end of _load_plugin_file and goes to
\* the logger).
RECURSIVE LoadClasses(_, _, _, _, _)
LoadClasses(st, key, types, i, line) ==
    IF i > Len(types) THEN st
    ELSE IF ~IsPluginClass(types[i]) THEN LoadClasses(st, key, types, i + 1, line)
    ELSE LET registered == Put(st.plugins, key, types[i])
         IN  IF TypeInfo(types[i]).ctorRaises
             THEN [st EXCEPT !.plugins = registered,
                             !.logged = @ \o Traced("failed to load plugin")]
             ELSE LoadClasses(
                    [plugins |-> registered,
                     out |-> SendMessage(st.out, PluginRegistered(key, types[i]), line),
                     logged |-> Append(
                         st.logged \o SendFailure(PluginRegistered(key, types[i])),
                         LogRec("info", "loaded plugin"))],
                    key, types, i + 1, line)

\* _load_plugin_file(file_path, folder_name)
LoadPluginFile(st, folder, file, line) ==
    IF file.loadFails
    THEN [st EXCEPT !.logged = @ \o Traced("failed to load plugin")]
    ELSE LoadClasses(st, PluginKey(folder, file.name), file.types, 1, line)

\* The loop over folder.glob("*.py") of _load_plugin_folder.
RECURSIVE LoadPyFiles(_, _, _, _, _)
LoadPyFiles(st, folder, files, i, line) ==
    IF i > Len(files) THEN st
    ELSE IF IsPyFile(files[i].name) /\ ~StartsWithDunder(files[i].name)
         THEN LoadPyFiles(LoadPluginFile(st, folder, files[i], line),
                          folder, files, i + 1, line)
         ELSE LoadPyFiles(st, folder, files, i + 1, line)

\* _load_plugin_folder(folder)
LoadPluginFolder(st, dir, line) ==
    IF \E i \in DOMAIN dir.files : dir.files[i].name = "index.py"
    THEN LET i == CHOOSE j \in DOMAIN dir.files : dir.files[j].name = "index.py"
         IN  LoadPluginFile(st, dir.name, dir.files[i], line)
    ELSE LoadPyFiles(st, dir.name, dir.files, 1, line)

\* The loop over plugins_dir.iterdir() of scan_plugins.
RECURSIVE ScanEntries(_, _, _, _)
ScanEntries(st, entries, i, line) ==
    IF i > Len(entries) THEN st
    ELSE IF entries[i].isDir /\ ~StartsWithDunder(entries[i].name)
         THEN ScanEntries(LoadPluginFolder(st, entries[i], line), entries, i + 1, line)
         ELSE ScanEntries(st, entries, i + 1, line)

\* scan_plugins(plugins_dir)
ScanPlugins(st, root, line) ==
    IF root \notin ExistingDirs
    THEN [st EXCEPT !.logged =
              Append(@, LogRec("warning", "plugin directory does not exist"))]
    ELSE ScanEntries(
           [st EXCEPT !.logged =
                Append(@, LogRec("info", "scanning plugin directory"))],
           Listing(root), 1, line)

(***************************************************************************)
(* PluginManager.call_plugin and the plugin methods.                       *)
(***************************************************************************)

\* A value of the args list: a mapping (a dict) or something else.
DictArg(v) == [kind |-> "dict", v |-> v]
StrArg(v) == [kind |-> "str", v |-> v]

\* An exception, by its class and the text str(e) gives.
\* ValueError(f"plugin does not exist: {plugin_key}")      (line 197)
UnknownPlugin(key) ==
    [exc |-> "ValueError", text |-> "plugin does not exist", key |-> key, method |-> None]

\* ValueError(f"method does not exist: {plugin_key}.{method}")   (line 211)
UnknownMethod(key, method) ==
    [exc |-> "ValueError", text |-> "method does not exist", key |-> key, method |-> method]

\* KeyError(field): message['plugin'] or message['method'] of a message
\* without that field; str(e) is the quoted field name.
KeyError(f) == [exc |-> "KeyError", text |-> f, key |-> <<None>>, method |-> None]

\* The exception a plugin's own code raises (constructor or method).
PluginError(text) == [exc |-> "Exception", text |-> text, key |-> <<None>>, method |-> None]

NoError == [exc |-> None, text |-> "", key |-> <<None>>, method |-> None]

\* plugin_class(): a new live instance; its private state is a call counter,
\* self.e is None.  serial tells the instances of one key apart.
NewInstance(t, serial) == [type |-> t, serial |-> serial, e |-> None, count |-> 0]

\* Mutant of the instance lookup: a new instance is constructed on every call.
NeedsInstanceAlways(insts, key) == TRUE

\* "if plugin_key not in self.instances"
NeedsInstance(insts, key) == key \notin DOMAIN insts

\* Mutant of the context installation: a call that supplies no mapping
\* clears the context.
InstallContextClears(inst, args) ==
    IF Len(args) > 0 /\ args[1].kind = "dict"
    THEN [inst EXCEPT !.e = args[1].v]
    ELSE [inst EXCEPT !.e = None]

\* Mutant of the context installation: a context once set is kept.
InstallContextOnce(inst, args) ==
    IF Len(args) > 0 /\ args[1].kind = "dict" /\ inst.e = None
    THEN [inst EXCEPT !.e = args[1].v]
    ELSE inst

\* "if args and isinstance(args[0], dict): instance.e = args[0]"
InstallContext(inst, args) ==
    IF Len(args) > 0 /\ args[1].kind = "dict"
    THEN [inst EXCEPT !.e = args[1].v]
    ELSE inst

\* Mutant of call_plugin: the method is looked up before the instance is
\* constructed and the context installed, so that a call of a method that
\* does not exist changes nothing.
CallPluginEnterChecksFirst(plugs, insts, mk, key, method, args) ==
    IF key \notin DOMAIN plugs
    THEN [instances |-> insts, made |-> mk, raised |-> UnknownPlugin(key)]
    ELSE IF method \notin TypeInfo(IF key \in DOMAIN insts THEN insts[key].type
                                   ELSE plugs[key]).methods
    THEN [instances |-> insts, made |-> mk, raised |-> UnknownMethod(key, method)]
    ELSE IF NeedsInstance(insts, key) /\ TypeInfo(plugs[key]).ctorRaises
    THEN [instances |-> insts, made |-> mk, raised |-> PluginError("init failed")]
    ELSE
      LET serial == IF key \in DOMAIN mk THEN mk[key] + 1 ELSE 1
          created == NeedsInstance(insts, key)
          i1 == IF created THEN Put(insts, key, NewInstance(plugs[key], serial))
                ELSE insts
          m1 == IF created THEN Put(mk, key, serial) ELSE mk
          i2 == [i1 EXCEPT ![key] = InstallContext(@, args)]
      IN  [instances |-> i2, made |-> m1, raised |-> NoError]

\* The part of call_plugin before the method is invoked (lines 194-213):
\* the registry after it, and the exception it raised, if any.
CallPluginEnter(plugs, insts, mk, key, method, args) ==
    IF key \notin DOMAIN plugs
    THEN [instances |-> insts, made |-> mk, raised |-> UnknownPlugin(key)]
    ELSE IF NeedsInstance(insts, key) /\ TypeInfo(plugs[key]).ctorRaises
    THEN [instances |-> insts, made |-> mk, raised |-> PluginError("init failed")]
    ELSE
      LET serial == IF key \in DOMAIN mk THEN mk[key] + 1 ELSE 1
          created == NeedsInstance(insts, key)
          i1 == IF created THEN Put(insts, key, NewInstance(plugs[key], serial))
                ELSE insts
          m1 == IF created THEN Put(mk, key, serial) ELSE mk
          i2 == [i1 EXCEPT ![key] = InstallContext(@, args)]
      IN  IF method \notin TypeInfo(i2[key].type).methods
          THEN [instances |-> i2, made |-> m1, raised |-> UnknownMethod(key, method)]
          ELSE [instances |-> i2, made |-> m1, raised |-> NoError]

\* The body of a plugin method, run on an instance: the instance after it,
\* the exception it raised (if any) and the value it returned.
Invoke(inst, method) ==
    CASE method = "say" ->
           [inst |-> [inst EXCEPT !.count = @ + 1], raised |-> NoError,
            result |-> JsonValue(inst.count + 1, inst.e)]
      [] method = "boom" ->
           [inst |-> inst, raised |-> PluginError("boom"), result |-> RawObject]
      [] OTHER ->
           [inst |-> inst, raised |-> NoError, result |-> RawObject]

(***************************************************************************)
(* Input lines.                                                            *)
(***************************************************************************)

\* A line of standard input, by what json.loads makes of it:
\*   garbage   : not JSON (JSONDecodeError)
\*   nonobject : JSON, but not an object (a list, a number, ...)
\*   json      : a JSON object, with the fields handle_message reads
Line(form, type, id, plugin, method, args, dir) ==
    [form |-> form, type |-> type, id |-> id, plugin |-> plugin,
     method |-> method, args |-> args, dir |-> dir]

NoPlugin == <<Missing>>

\* A call as the host words it: the plugin key, the method and the args.
Target(key, method, args) == [key |-> key, method |-> method, args |-> args]

\* The calls a host sends: to a key never discovered, to the keys of the
\* roots R1 and R2, with methods that return, raise, return an object that
\* cannot be encoded or do not exist, with and without a call context, and
\* with the plugin or the method field left out.
CallTargets ==
    { Target(NoPlugin, "say", <<>>),
      Target(<<"echo", "index.py">>, Missing, <<>>),
      Target(<<"ghost", "index.py">>, "say", <<>>),
      Target(<<"echo", "index.py">>, "say", <<>>),
      Target(<<"echo", "index.py">>, "say", <<DictArg("e1")>>),
      Target(<<"echo", "index.py">>, "say", <<StrArg("x")>>),
      Target(<<"echo", "index.py">>, "boom", <<>>),
      Target(<<"echo", "index.py">>, "raw", <<>>),
      Target(<<"echo", "index.py">>, NoSuchMethod, <<DictArg("e2")>>),
      Target(<<"multi", "a.py">>, "say", <<>>),
      Target(<<"multi", "b.py">>, "say", <<>>) }

\* The calls sent with the ids 0 and "" as well: one that fails before the
\* method runs, one that returns and one that raises.
ZeroIdTargets ==
    { Target(<<"ghost", "index.py">>, "say", <<>>),
      Target(<<"echo", "index.py">>, "say", <<>>),
      Target(<<"echo", "index.py">>, "boom", <<>>) }

\* The call messages of the input alphabet, as <<id, target>>.
Calls ==
    (({IdNone, "1"} \X CallTargets) \cup ((Ids \ {IdNone, "1"}) \X ZeroIdTargets))

\* data.dir of a load_plugins message (Missing: the message has no data).
LoadDirs == {"R1", "R2", DefaultDir, NoDir, Missing}

\* What the history keeps of a line that was read.
Summary(form, type, id) == [form |-> form, type |-> type, id |-> id]

(***************************************************************************)
(* State.                                                                  *)
(***************************************************************************)

VARIABLES
    argv,         \* sys.argv
    decl,         \* the rule and task lists a plugin instance declares
    tree,         \* the entries of a plugin root handed to discovery
    bridge,       \* bridge.py's handler and loader, run beside this one
    plugins_dir,  \* the root main() parsed from argv
    plugins,      \* PluginManager.plugins: key -> type
    instances,    \* PluginManager.instances: key -> live instance
    running,      \* MessageHandler.running
    pc,           \* where the process is: main, loop, blocked, calling, stopped
    cur,          \* the line the loop read last (line / message of run)
    out,          \* the protocol channel (stdout)
    logged,       \* what the last step wrote on the diagnostic stream
    nread,        \* history: number of lines read
    hist,         \* history: summary of each line read
    made          \* history: live instances constructed per key

vars == <<argv, decl, tree, stdout_ok, bridge, plugins_dir, plugins, instances, running, pc, cur, out,
          logged, nread, hist, made>>

\* bridge.py's MessageHandler and PluginLoader after construction:
\* self.running = True, self.instances = {}, run() not yet entered, no line
\* read and nothing written.
NoBridge ==
    [started |-> FALSE, nread |-> 0, running |-> TRUE,
     instances |-> EmptyMap, made |-> EmptyMap, out |-> << >>]

\* No line read yet.
NoLine == Line("none", "none", IdNone, NoPlugin, Missing, <<>>, Missing)

\* Command lines the bridge is started with.
Argvs == { <<"python_bridge.py">>,
           <<"python_bridge.py", "--plugins-dir", "R1">> }

\* A plugin instance as PythonPlugin.__init__ leaves it: no rule, no task.
NoDecl == [rule |-> << >>, task |-> << >>]

\* The process as the interpreter starts main(): nothing constructed yet
\* but the empty PluginManager and a MessageHandler with running = True.
Init ==
    /\ argv \in Argvs
    /\ decl = NoDecl
    /\ tree = << >>
    /\ stdout_ok = TRUE
    /\ bridge = NoBridge
    /\ plugins_dir = DefaultDir
    /\ plugins = EmptyMap
    /\ instances = EmptyMap
    /\ running = TRUE
    /\ pc = "main"
    /\ cur = NoLine
    /\ out = << >>
    /\ logged = << >>
    /\ nread = 0
    /\ hist = << >>
    /\ made = EmptyMap

\* The loop of main() over sys.argv (lines 348-351): the value after the
\* last "--plugins-dir" that has one.
RECURSIVE ParseArgs(_, _, _)
ParseArgs(av, i, dir) ==
    IF i > Len(av) THEN dir
    ELSE IF av[i] = "--plugins-dir" /\ i + 1 <= Len(av)
         THEN ParseArgs(av, i + 1, av[i + 1])
         ELSE ParseArgs(av, i + 1, dir)

\* The except branch of handle_message (lines 265-276): an error response,
\* only "if msg_id".
ErrorReply(o, id, e, line) ==
    IF Truthy(id) THEN SendMessage(o, ErrorResponse(id, e), line) ELSE o

\* Mutant of the success path: the response carries value and error.
ValueReplyBoth(o, id, v, line) ==
    SendMessage(o, [type |-> "response", id |-> id,
                    data |-> [value |-> v, error |-> NoError]], line)

\* Mutant of the success path: the failure of the write is raised to
\* handle_message, whose except branch answers with an error response.
ValueReplyRaises(o, id, v, line) ==
    IF Writable(ValueResponse(id, v))
    THEN SendMessage(o, ValueResponse(id, v), line)
    ELSE Append(o, [msg |-> ErrorResponse(id, PluginError("not serializable")),
                    line |-> line])

\* The success branch of handle_message (lines 252-259).
ValueReply(o, id, v, line) == SendMessage(o, ValueResponse(id, v), line)

\* What the except branch of handle_message writes on the diagnostic
\* stream: the failure of its send_message, if it has one, and the two
\* records of the logger.
HandlerFailed == Traced("message handling error")

ErrorReplyLogged(id, e) ==
    (IF Truthy(id) THEN SendFailure(ErrorResponse(id, e)) ELSE << >>)
        \o HandlerFailed

(***************************************************************************)
(* Steps: main(), and one step per way an iteration of the loop of         *)
(* MessageHandler.run can go.  pc = "loop" is the head of the loop (the    *)
(* test of self.running, and the readline that follows it when the flag    *)
(* is up); pc = "blocked" is a readline that a signal handler has          *)
(* overtaken: the flag is down, and the loop tests it only after the line  *)
(* it waits for has been handled.                                          *)
(***************************************************************************)

\* Mutant of the start of run(): the ready message is not written.
MainSilent ==
    /\ pc = "main"
    /\ plugins_dir' = ParseArgs(argv, 1, DefaultDir)
    /\ out' = SendMessage(out, LogMsg("runtime ready", "info"), 0)
    /\ logged' = << >>
    /\ pc' = "loop"
    /\ UNCHANGED <<argv, decl, tree, stdout_ok, bridge, plugins, instances, running, cur, nread, hist, made>>

\* main() up to the loop of run(): the arguments are parsed, the manager and
\* the handler exist, run() installs the signal handlers and writes ready
\* and the "runtime ready" log line.
Main ==
    /\ pc = "main"
    /\ plugins_dir' = ParseArgs(argv, 1, DefaultDir)
    /\ out' = SendMessage(SendMessage(out, ReadyMsg, 0),
                          LogMsg("runtime ready", "info"), 0)
    /\ logged' = SendFailure(ReadyMsg) \o SendFailure(LogMsg("runtime ready", "info"))
    /\ pc' = "loop"
    /\ UNCHANGED <<argv, decl, tree, stdout_ok, bridge, plugins, instances, running, cur, nread, hist, made>>

\* Mutant of the loop: the next line is read while a method is in flight.
AtReadInFlight == (pc \in {"loop", "calling"} /\ running) \/ pc = "blocked"

\* The loop is in readline, or at its head with the flag up.
AtRead == (pc = "loop" /\ running) \/ pc = "blocked"

\* readline can return another line of a host that sends max lines.
Reading(max) == AtRead /\ nread < max

\* "while self.running" lets the loop read another line.
CanRead == Reading(MaxLines)

\* A line was read: it is the loop's current line, and the history records it.
Record(line) ==
    /\ nread' = nread + 1
    /\ hist' = Append(hist, Summary(line.form, line.type, line.id))
    /\ cur' = line

\* A line that carries no message.
Noise(form) == Line(form, "none", IdNone, NoPlugin, Missing, <<>>, Missing)

\* A message that is no call.
Control(type, id, dir) == Line("json", type, id, NoPlugin, Missing, <<>>, dir)

\* Mutant of the end of input: the empty read is taken for an empty line.
ReadEOFIgnored ==
    /\ AtRead
    /\ pc' = "loop"
    /\ logged' = << >>
    /\ UNCHANGED <<argv, decl, tree, stdout_ok, bridge, plugins_dir, plugins, instances, running, cur,
                   out, nread, hist, made>>

\* readline() returns '' at end of input: break.
ReadEOF ==
    /\ AtRead
    /\ pc' = "stopped"
    /\ logged' = << >>
    /\ UNCHANGED <<argv, decl, tree, stdout_ok, bridge, plugins_dir, plugins, instances, running, cur,
                   out, nread, hist, made>>

\* A line that is empty after strip(): continue.
StepEmpty ==
    /\ Record(Noise("empty"))
    /\ pc' = "loop"
    /\ logged' = << >>
    /\ UNCHANGED <<argv, decl, tree, stdout_ok, bridge, plugins_dir, plugins, instances, running, out, made>>

\* json.loads raises JSONDecodeError: logged by the logger, next line.
StepGarbage ==
    /\ Record(Noise("garbage"))
    /\ pc' = "loop"
    /\ logged' = << LogRec("error", "JSON decode error") >>
    /\ UNCHANGED <<argv, decl, tree, stdout_ok, bridge, plugins_dir, plugins, instances, running, out, made>>

\* json.loads gives a value that is no dict: message.get raises
\* AttributeError before the try of handle_message; the except Exception of
\* the loop logs it, next line.
StepNonObject ==
    /\ Record(Noise("nonobject"))
    /\ pc' = "loop"
    /\ logged' = Traced("message loop error")
    /\ UNCHANGED <<argv, decl, tree, stdout_ok, bridge, plugins_dir, plugins, instances, running, out, made>>

\* Mutant of the dispatch: a message of another type is answered by an
\* error response.
StepOtherAnswered(id) ==
    /\ Record(Control("other", id, Missing))
    /\ pc' = "loop"
    /\ out' = SendMessage(out, ErrorResponse(id, KeyError("type")), nread + 1)
    /\ logged' = << >>
    /\ UNCHANGED <<argv, decl, tree, stdout_ok, bridge, plugins_dir, plugins, instances, running, made>>

\* A message whose type is none of load_plugins, call, shutdown: no branch
\* of handle_message is taken.
StepOther(id) ==
    /\ Record(Control("other", id, Missing))
    /\ pc' = "loop"
    /\ logged' = << >>
    /\ UNCHANGED <<argv, decl, tree, stdout_ok, bridge, plugins_dir, plugins, instances, running, out, made>>

\* type == 'shutdown': self.running = False.
StepShutdown(id) ==
    /\ Record(Control("shutdown", id, Missing))
    /\ running' = FALSE
    /\ pc' = "loop"
    /\ logged' = << >>
    /\ UNCHANGED <<argv, decl, tree, stdout_ok, bridge, plugins_dir, plugins, instances, out, made>>

\* Mutant of the load_plugins branch: a scan that ends is acknowledged by a
\* response to a message that has an id.
StepLoadPluginsAcked(id, dir) ==
    /\ Record(Control("load_plugins", id, dir))
    /\ IF dir = Missing
       THEN /\ out' = ErrorReply(out, id, KeyError("data"), nread + 1)
            /\ logged' = ErrorReplyLogged(id, KeyError("data"))
            /\ plugins' = plugins
       ELSE LET st == ScanPlugins([plugins |-> plugins, out |-> out,
                                   logged |-> << >>], dir, nread + 1)
            IN  /\ plugins' = st.plugins
                /\ out' = IF Truthy(id)
                          THEN SendMessage(st.out, ValueResponse(id, JsonValue(0, None)),
                                           nread + 1)
                          ELSE st.out
                /\ logged' = st.logged
    /\ pc' = "loop"
    /\ UNCHANGED <<argv, decl, tree, stdout_ok, bridge, plugins_dir, instances, running, made>>

\* Mutant of discovery: the transient instance built to read the descriptor
\* is kept as the live instance of a key that has none.
StepLoadPluginsKeepsTransient(id, dir) ==
    /\ Record(Control("load_plugins", id, dir))
    /\ IF dir = Missing
       THEN /\ out' = ErrorReply(out, id, KeyError("data"), nread + 1)
            /\ logged' = ErrorReplyLogged(id, KeyError("data"))
            /\ plugins' = plugins
            /\ instances' = instances
       ELSE LET st == ScanPlugins([plugins |-> plugins, out |-> out,
                                   logged |-> << >>], dir, nread + 1)
                new == {k \in DOMAIN st.plugins :
                           /\ k \notin DOMAIN instances
                           /\ ~TypeInfo(st.plugins[k]).ctorRaises}
            IN  /\ plugins' = st.plugins
                /\ out' = st.out
                /\ logged' = st.logged
                /\ instances' = [k \in DOMAIN instances \cup new |->
                                    IF k \in DOMAIN instances THEN instances[k]
                                    ELSE NewInstance(st.plugins[k], 0)]
    /\ pc' = "loop"
    /\ UNCHANGED <<argv, decl, tree, stdout_ok, bridge, plugins_dir, running, made>>

\* Mutant of the rescan: the live instances of the keys the scan registers
\* are dropped.
StepLoadPluginsResets(id, dir) ==
    /\ Record(Control("load_plugins", id, dir))
    /\ LET st == ScanPlugins([plugins |-> plugins, out |-> out,
                              logged |-> << >>], dir, nread + 1)
           kept == {k \in DOMAIN instances :
                       k \notin DOMAIN plugins \/ st.plugins[k] = plugins[k]}
       IN  /\ plugins' = st.plugins
           /\ out' = st.out
           /\ logged' = st.logged
           /\ instances' = [k \in kept |-> instances[k]]
    /\ pc' = "loop"
    /\ UNCHANGED <<argv, decl, tree, stdout_ok, bridge, plugins_dir, running, made>>

\* type == 'load_plugins': scan_plugins(Path(message['data']['dir'])); a
\* message without data raises KeyError, answered by the except branch.
StepLoadPlugins(id, dir) ==
    /\ Record(Control("load_plugins", id, dir))
    /\ IF dir = Missing
       THEN /\ out' = ErrorReply(out, id, KeyError("data"), nread + 1)
            /\ logged' = ErrorReplyLogged(id, KeyError("data"))
            /\ plugins' = plugins
       ELSE LET st == ScanPlugins([plugins |-> plugins, out |-> out,
                                   logged |-> << >>], dir, nread + 1)
            IN  /\ plugins' = st.plugins
                /\ out' = st.out
                /\ logged' = st.logged
    /\ pc' = "loop"
    /\ UNCHANGED <<argv, decl, tree, stdout_ok, bridge, plugins_dir, instances, running, made>>

\* type == 'call', up to the point where call_plugin invokes the method: a
\* failure before that is answered at once by the except branch; otherwise
\* the method is in flight (an await for an async method).
StepCall(id, t) ==
    /\ Record(Line("json", "call", id, t.key, t.method, t.args, Missing))
    /\ IF t.key = NoPlugin \/ t.method = Missing
       THEN /\ out' = ErrorReply(out, id,
                         KeyError(IF t.key = NoPlugin THEN "plugin" ELSE "method"),
                         nread + 1)
            /\ logged' = ErrorReplyLogged(id,
                             KeyError(IF t.key = NoPlugin THEN "plugin" ELSE "method"))
            /\ pc' = "loop"
            /\ UNCHANGED <<instances, made>>
       ELSE LET r == CallPluginEnter(plugins, instances, made,
                                     t.key, t.method, t.args)
            IN  /\ instances' = r.instances
                /\ made' = r.made
                /\ IF r.raised # NoError
                   THEN /\ out' = ErrorReply(out, id, r.raised, nread + 1)
                        /\ logged' = ErrorReplyLogged(id, r.raised)
                        /\ pc' = "loop"
                   ELSE /\ pc' = "calling"
                        /\ out' = out
                        /\ logged' = << >>
    /\ UNCHANGED <<argv, decl, tree, stdout_ok, bridge, plugins_dir, plugins, running>>

ReadEmpty == CanRead /\ StepEmpty

\* Mutant of the decode failure: the JSONDecodeError is not caught and ends
\* the loop.
ReadGarbageStops ==
    /\ CanRead
    /\ Record(Noise("garbage"))
    /\ pc' = "stopped"
    /\ logged' = << >>
    /\ UNCHANGED <<argv, decl, tree, stdout_ok, bridge, plugins_dir, plugins, instances, running, out, made>>

ReadGarbage == CanRead /\ StepGarbage

ReadNonObject == CanRead /\ StepNonObject

HandleOther == CanRead /\ \E id \in {IdNone, "1"} : StepOther(id)

\* Mutant of the shutdown branch: the running flag is left set.
HandleShutdownIgnored ==
    /\ CanRead
    /\ Record(Control("shutdown", IdNone, Missing))
    /\ pc' = "loop"
    /\ logged' = << >>
    /\ UNCHANGED <<argv, decl, tree, stdout_ok, bridge, plugins_dir, plugins, instances, running, out, made>>

HandleShutdown == CanRead /\ StepShutdown(IdNone)

HandleLoadPlugins ==
    CanRead /\ \E id \in {IdNone, "1"}, dir \in LoadDirs : StepLoadPlugins(id, dir)

HandleCall == CanRead /\ \E c \in Calls : StepCall(c[1], c[2])

\* The method in flight returns or raises: the response is written and the
\* iteration ends.
CallReturns ==
    /\ pc = "calling"
    /\ LET r == Invoke(instances[cur.plugin], cur.method)
       IN  /\ instances' = [instances EXCEPT ![cur.plugin] = r.inst]
           /\ out' = IF r.raised # NoError
                     THEN ErrorReply(out, cur.id, r.raised, nread)
                     ELSE ValueReply(out, cur.id, r.result, nread)
           /\ logged' = IF r.raised # NoError
                        THEN ErrorReplyLogged(cur.id, r.raised)
                        ELSE SendFailure(ValueResponse(cur.id, r.result))
    /\ pc' = "loop"
    /\ UNCHANGED <<argv, decl, tree, stdout_ok, bridge, plugins_dir, plugins, running, cur, nread, hist, made>>

\* "while self.running" is false: run() returns, main() returns, the
\* process exits with status 0.
LoopExit ==
    /\ pc = "loop" /\ ~running
    /\ pc' = "stopped"
    /\ logged' = << >>
    /\ UNCHANGED <<argv, decl, tree, stdout_ok, bridge, plugins_dir, plugins, instances, running, cur,
                   out, nread, hist, made>>

Next ==
    \/ Main
    \/ ReadEOF
    \/ ReadEmpty
    \/ ReadGarbage
    \/ ReadNonObject
    \/ HandleOther
    \/ HandleShutdown
    \/ HandleLoadPlugins
    \/ HandleCall
    \/ CallReturns
    \/ LoopExit

Spec == Init /\ [][Next]_vars

(***************************************************************************)
(* A host that works with one plugin, echo/index.py: it loads the root R1  *)
(* and the root R3 (a later version of the same file), calls the plugin by *)
(* the key discovery announced and by the key without the file suffix,     *)
(* sends lines that do not decode, and shuts the bridge down or closes the *)
(* stream.  It sends up to EchoLines lines.                                *)
(***************************************************************************)

EchoDirs == {"R1", "R3"}

EchoTargets ==
    { Target(<<"echo", "index.py">>, "say", <<DictArg("e1")>>),
      Target(<<"echo", "index.py">>, "say", <<>>),
      Target(<<"echo", "index">>, "say", <<DictArg("e1")>>) }

EchoLoad ==
    Reading(EchoLines) /\ \E dir \in EchoDirs : StepLoadPlugins(IdNone, dir)

EchoCall ==
    Reading(EchoLines) /\ \E t \in EchoTargets : StepCall("1", t)

EchoShutdown == Reading(EchoLines) /\ StepShutdown(IdNone)

EchoGarbage == Reading(EchoLines) /\ StepGarbage

NextEcho ==
    \/ Main
    \/ ReadEOF
    \/ EchoLoad
    \/ EchoCall
    \/ EchoShutdown
    \/ EchoGarbage
    \/ CallReturns
    \/ LoopExit

SpecEcho == Init /\ [][NextEcho]_vars

\* The host's stream is finite and ends (a pending readline returns a line
\* or the end of input), every method in flight returns, and the process
\* takes its own steps.
FairEcho == SpecEcho /\ WF_vars(NextEcho)

(***************************************************************************)
(* Signals.  run() installs, for SIGTERM and SIGINT, a handler that calls  *)
(* stop(); the interpreter runs it in the main thread, between two         *)
(* instructions of whatever the loop is doing.  A signal that arrives      *)
(* before the handlers are installed is not part of the model.  The host   *)
(* of this specification loads R1, calls the echo plugin, shuts down or    *)
(* closes the stream, and sends up to MaxSignals signals.                  *)
(***************************************************************************)

\* The log message of stop().
StopLog == LogMsg("runtime closing", "info")

\* History tag of a message the signal handler wrote: no line's handling.
BySignal == -1

\* Signals delivered so far: each one wrote its log message.
Signals == Cardinality({j \in DOMAIN out : out[j].msg = StopLog})

\* stop(), called by the signal handler: the flag goes down and the log
\* message is written.  The loop does not see the flag before its next
\* test of it: a readline that has begun goes on waiting.
Signal ==
    /\ pc \in {"loop", "blocked", "calling"}
    /\ Signals < MaxSignals
    /\ running' = FALSE
    /\ out' = SendMessage(out, StopLog, BySignal)
    /\ logged' = SendFailure(StopLog)
    /\ pc' \in (IF pc = "loop" /\ running THEN {"loop", "blocked"} ELSE {pc})
    /\ UNCHANGED <<argv, decl, tree, stdout_ok, bridge, plugins_dir, plugins, instances, cur, nread,
                   hist, made>>

SigTargets ==
    { Target(<<"echo", "index.py">>, "say", <<DictArg("e1")>>),
      Target(<<"echo", "index.py">>, "boom", <<>>) }

SigLoad == CanRead /\ StepLoadPlugins(IdNone, "R1")

SigCall == CanRead /\ \E t \in SigTargets : StepCall("1", t)

NextSig ==
    \/ Main
    \/ Signal
    \/ ReadEOF
    \/ SigLoad
    \/ SigCall
    \/ HandleShutdown
    \/ CallReturns
    \/ LoopExit

SpecSig == Init /\ [][NextSig]_vars

\* The process takes its own steps and a method in flight returns; the
\* host is free to send nothing and to leave the stream open.
FairSig ==
    SpecSig /\ WF_vars(Main) /\ WF_vars(CallReturns) /\ WF_vars(LoopExit)

(***************************************************************************)
(* The descriptor of one plugin, whatever it declares: a plugin instance   *)
(* with up to MaxRules rules and MaxTasks tasks, each field of a rule and  *)
(* of a task at its default or at another value, is handed to              *)
(* _send_plugin_registered.                                                *)
(***************************************************************************)

RuleValues ==
    [reg : {None, "^a$"}, fnc : {"", "say"}, event : {"message", "notice"},
     log : {"True", "False"}, permission : {"all", "master"}]

TaskValues ==
    [cron : {"0 0 * * *"}, fnc : {"say"}, name : {None, "daily"},
     log : {"True", "False"}]

\* The lists of at most n elements of S.
SeqsUpTo(S, n) == UNION { [1..k -> S] : k \in 0..n }

Decls ==
    [rule : SeqsUpTo(RuleValues, MaxRules), task : SeqsUpTo(TaskValues, MaxTasks)]

\* A plugin instance has been constructed and has set self.rule, self.task.
InitDecl ==
    /\ argv = <<"python_bridge.py">>
    /\ decl \in Decls
    /\ tree = << >>
    /\ stdout_ok = TRUE
    /\ bridge = NoBridge
    /\ plugins_dir = DefaultDir
    /\ plugins = EmptyMap
    /\ instances = EmptyMap
    /\ running = TRUE
    /\ pc = "declared"
    /\ cur = NoLine
    /\ out = << >>
    /\ logged = << >>
    /\ nread = 0
    /\ hist = << >>
    /\ made = EmptyMap

\* _send_plugin_registered(key, instance)
Announce ==
    /\ pc = "declared"
    /\ out' = SendMessage(out,
                 SendPluginRegistered(<<"decl", "index.py">>,
                     Transient("Decl", 50, decl.rule, decl.task)), 0)
    /\ pc' = "announced"
    /\ UNCHANGED <<argv, decl, tree, stdout_ok, bridge, plugins_dir, plugins, instances, running, cur,
                   logged, nread, hist, made>>

SpecDecl == InitDecl /\ [][Announce]_vars

\* The defaults of the fields of PluginRule and of PluginTask.
RuleDefaults ==
    [reg |-> None, fnc |-> "", event |-> "message", log |-> "True",
     permission |-> "all"]

TaskDefaults == [cron |-> Missing, fnc |-> Missing, name |-> None, log |-> "True"]

\* PluginRule(**d): the fields d carries, the others at their defaults.
RuleFromDict(d) ==
    [f \in DOMAIN RuleDefaults |-> IF f \in DOMAIN d THEN d[f] ELSE RuleDefaults[f]]

\* PluginTask(**d)
TaskFromDict(d) ==
    [f \in DOMAIN TaskDefaults |-> IF f \in DOMAIN d THEN d[f] ELSE TaskDefaults[f]]

(***************************************************************************)
(* Standard output that fails.  The host of this specification loads R1    *)
(* and calls the echo plugin, also a method whose result cannot be         *)
(* encoded, and at some time closes its end of the pipe: every print of    *)
(* the bridge raises BrokenPipeError from then on.                         *)
(***************************************************************************)

\* The host closes the pipe the bridge writes to.
BreakPipe ==
    /\ stdout_ok /\ pc # "stopped"
    /\ stdout_ok' = FALSE
    /\ UNCHANGED <<argv, decl, tree, bridge, plugins_dir, plugins, instances,
                   running, pc, cur, out, logged, nread, hist, made>>

PipeTargets ==
    { Target(<<"echo", "index.py">>, "say", <<DictArg("e1")>>),
      Target(<<"echo", "index.py">>, "boom", <<>>),
      Target(<<"echo", "index.py">>, "raw", <<>>) }

PipeCall == CanRead /\ \E t \in PipeTargets : StepCall("1", t)

NextPipe ==
    \/ Main
    \/ BreakPipe
    \/ ReadEOF
    \/ SigLoad
    \/ PipeCall
    \/ HandleShutdown
    \/ CallReturns
    \/ LoopExit

SpecPipe == Init /\ [][NextPipe]_vars

(***************************************************************************)
(* The second loader of the repository, bridge.py: PluginLoader, whose     *)
(* plugins derive from PluginBase (plugins/python/example/index.py does).  *)
(***************************************************************************)

\* isinstance(attr, type) and issubclass(attr, PluginBase) and
\* attr != PluginBase
BridgeIsPluginClass(t) == TypeInfo(t).base = "PluginBase" /\ t # "PluginBase"

\* A rule of a PluginBase plugin: a dict, or an object with attributes.
DictRule(d) == [kind |-> "dict", v |-> d]
ObjectRule(attrs) == [kind |-> "object", v |-> attrs]

\* getattr(rule, name, default)
GetAttr(attrs, name, default) ==
    IF name \in DOMAIN attrs THEN attrs[name] ELSE default

\* _serialize_rules(rules): a dict is passed on as it is, of any other
\* object the five attributes are read, each with its default.
BridgeSerializeRules(rules) ==
    [i \in DOMAIN rules |->
        IF rules[i].kind = "dict" THEN rules[i].v
        ELSE [reg |-> GetAttr(rules[i].v, "reg", None),
              fnc |-> GetAttr(rules[i].v, "fnc", ""),
              event |-> GetAttr(rules[i].v, "event", "message"),
              log |-> GetAttr(rules[i].v, "log", "True"),
              permission |-> GetAttr(rules[i].v, "permission", "all")]]

\* self.rule of an instance of a PluginBase plugin.
BridgeRulesOf(t) ==
    CASE t = "ExamplePlugin" ->
           << DictRule([reg |-> "^py$", fnc |-> "test", event |-> "message",
                        log |-> "True"]),
              DictRule([reg |-> "^calc$", fnc |-> "calculate",
                        event |-> "message"]) >>
      [] t = "DataProcessPlugin" ->
           << DictRule([reg |-> "^stat$", fnc |-> "statistics",
                        event |-> "message"]),
              DictRule([reg |-> "^sort$", fnc |-> "sort_data",
                        event |-> "message"]) >>
      [] OTHER -> << >>

\* self.task of an instance of a PluginBase plugin: sent as it is.
BridgeTasksOf(t) ==
    CASE t = "ExamplePlugin" ->
           << [cron |-> "0 0 * * * *", fnc |-> "hourly_task", log |-> "True"] >>
      [] OTHER -> << >>

\* The plugin_registered message of _load_file.
BridgeRegistered(key, t) ==
    [type |-> "plugin_registered",
     data |-> [key |-> key,
               name |-> TypeInfo(t).name,
               priority |-> TypeInfo(t).priority,
               rule |-> BridgeSerializeRules(BridgeRulesOf(t)),
               task |-> BridgeTasksOf(t)]]

\* str(file_path.relative_to(self.plugins_dir)): the file name for a file
\* of the root, directory and file name for a file of a directory.
BridgeKey(folder, file) == IF folder = None THEN <<file>> ELSE <<folder, file>>

\* The loop over dir(module) of _load_file, from the i-th class on.
RECURSIVE BridgeLoadClasses(_, _, _, _, _)
BridgeLoadClasses(st, key, types, i, line) ==
    IF i > Len(types) THEN st
    ELSE IF ~BridgeIsPluginClass(types[i])
    THEN BridgeLoadClasses(st, key, types, i + 1, line)
    ELSE LET registered == Put(st.plugins, key, types[i])
         IN  IF TypeInfo(types[i]).ctorRaises
             THEN [st EXCEPT !.plugins = registered,
                             !.logged = Append(@, LogRec("error", "failed to load plugin"))]
             ELSE BridgeLoadClasses(
                    [plugins |-> registered,
                     out |-> SendMessage(st.out, BridgeRegistered(key, types[i]), line),
                     logged |-> Append(
                         st.logged \o
                            (IF Writable(BridgeRegistered(key, types[i])) THEN << >>
                             ELSE << LogRec("error", "failed to send message") >>),
                         LogRec("info", "loaded plugin"))],
                    key, types, i + 1, line)

\* _load_file(file_path)
BridgeLoadFile(st, folder, file, line) ==
    IF file.loadFails
    THEN [st EXCEPT !.logged = Append(@, LogRec("error", "failed to load plugin"))]
    ELSE BridgeLoadClasses(st, BridgeKey(folder, file.name), file.types, 1, line)

\* The loop over dir_path.glob('*.py') of _load_directory.
RECURSIVE BridgeLoadPyFiles(_, _, _, _, _)
BridgeLoadPyFiles(st, folder, files, i, line) ==
    IF i > Len(files) THEN st
    ELSE IF IsPyFile(files[i].name) /\ ~StartsWithDunder(files[i].name)
         THEN BridgeLoadPyFiles(BridgeLoadFile(st, folder, files[i], line),
                                folder, files, i + 1, line)
         ELSE BridgeLoadPyFiles(st, folder, files, i + 1, line)

\* _load_directory(dir_path)
BridgeLoadDirectory(st, dir, line) ==
    IF \E i \in DOMAIN dir.files : dir.files[i].name = "index.py"
    THEN LET i == CHOOSE j \in DOMAIN dir.files : dir.files[j].name = "index.py"
         IN  BridgeLoadFile(st, dir.name, dir.files[i], line)
    ELSE BridgeLoadPyFiles(st, dir.name, dir.files, 1, line)

\* The loop over self.plugins_dir.iterdir() of load_all.
RECURSIVE BridgeLoadAll(_, _, _, _)
BridgeLoadAll(st, entries, i, line) ==
    IF i > Len(entries) THEN st
    ELSE IF ~entries[i].isDir /\ IsPyFile(entries[i].name)
         THEN BridgeLoadAll(BridgeLoadFile(st, None, entries[i].files[1], line),
                            entries, i + 1, line)
         ELSE IF entries[i].isDir /\ ~StartsWithDunder(entries[i].name)
         THEN BridgeLoadAll(BridgeLoadDirectory(st, entries[i], line),
                            entries, i + 1, line)
         ELSE BridgeLoadAll(st, entries, i + 1, line)

(***************************************************************************)
(* Discovery over any root: a root of at most MaxEntries entries, in any   *)
(* listing order, is handed to the loader of python_bridge.py or to the    *)
(* loader of bridge.py.  Every source file of the root defines one plugin  *)
(* class of the loader's base, so that a file is loaded exactly when its   *)
(* key is registered.                                                      *)
(***************************************************************************)

\* The two programs, by argv[0].
Loaders == {"python_bridge.py", "bridge.py"}

\* The classes of a plugin module written for a loader.
ModuleOf(loader) ==
    IF loader = "bridge.py" THEN <<"ExamplePlugin", "PluginBase">>
    ELSE <<"Echo", "PythonPlugin">>

\* The listings of a directory.
FileLists(ts) ==
    { << File("index.py", ts, FALSE), File("extra.py", ts, FALSE) >>,
      << File("extra.py", ts, FALSE), File("index.py", ts, FALSE) >>,
      << File("a.py", ts, FALSE), File("__init__.py", ts, FALSE),
         File("notes.txt", << >>, FALSE) >>,
      << File("b.py", ts, FALSE), File("a.py", ts, FALSE) >>,
      << >> }

\* The entries of a root.
Entries(ts) ==
    { Dir(d, fs) : d \in {"echo", "__pycache__"}, fs \in FileLists(ts) }
        \cup { TopFile("top.py", ts), TopFile("notes.txt", << >>) }

\* The roots: entries with different names, in any order.
Trees(ts) ==
    { t \in SeqsUpTo(Entries(ts), MaxEntries) :
         \A i, j \in DOMAIN t : i # j => t[i].name # t[j].name }

InitScan ==
    /\ \E l \in Loaders : argv = <<l>> /\ tree \in Trees(ModuleOf(l))
    /\ decl = NoDecl
    /\ stdout_ok = TRUE
    /\ bridge = NoBridge
    /\ plugins_dir = DefaultDir
    /\ plugins = EmptyMap
    /\ instances = EmptyMap
    /\ running = TRUE
    /\ pc = "tree"
    /\ cur = NoLine
    /\ out = << >>
    /\ logged = << >>
    /\ nread = 0
    /\ hist = << >>
    /\ made = EmptyMap

\* python_bridge.py: scan_plugins(root) of a root that exists.
ScanTree ==
    /\ pc = "tree" /\ argv[1] = "python_bridge.py"
    /\ LET st == ScanEntries([plugins |-> plugins, out |-> out,
                              logged |-> << LogRec("info", "scanning plugin directory") >>],
                             tree, 1, 0)
       IN  plugins' = st.plugins /\ out' = st.out /\ logged' = st.logged
    /\ pc' = "scanned"
    /\ UNCHANGED <<argv, decl, tree, stdout_ok, bridge, plugins_dir, instances, running,
                   cur, nread, hist, made>>

\* bridge.py: load_all() of a root that exists.
LoadAll ==
    /\ pc = "tree" /\ argv[1] = "bridge.py"
    /\ LET st == BridgeLoadAll([plugins |-> plugins, out |-> out,
                                logged |-> << >>], tree, 1, 0)
       IN  plugins' = st.plugins /\ out' = st.out /\ logged' = st.logged
    /\ pc' = "scanned"
    /\ UNCHANGED <<argv, decl, tree, stdout_ok, bridge, plugins_dir, instances, running,
                   cur, nread, hist, made>>

NextScan == ScanTree \/ LoadAll

SpecScan == InitScan /\ [][NextScan]_vars

(***************************************************************************)
(* The two bridges side by side.  The host sends every line to both:       *)
(* python_bridge.py handles line n, then bridge.py handles the same line,  *)
(* then line n + 1 is sent.  The two registries hold the same keys and     *)
(* types: plugins stands for both, filled by the load_plugins lines, which *)
(* bridge.py's handler has no branch for.                                  *)
(***************************************************************************)

\* ValueError(f"method does not exist: {method}")    (bridge.py:172)
BridgeUnknownMethod(method) ==
    [exc |-> "ValueError", text |-> "method does not exist", key |-> <<None>>,
     method |-> method]

\* call_method up to the invocation of the method (bridge.py:159-174).
BridgeCallMethodEnter(plugs, insts, mk, key, method, args) ==
    IF key \notin DOMAIN plugs
    THEN [instances |-> insts, made |-> mk, raised |-> UnknownPlugin(key)]
    ELSE IF key \notin DOMAIN insts /\ TypeInfo(plugs[key]).ctorRaises
    THEN [instances |-> insts, made |-> mk, raised |-> PluginError("init failed")]
    ELSE
      LET serial == IF key \in DOMAIN mk THEN mk[key] + 1 ELSE 1
          created == key \notin DOMAIN insts
          i1 == IF created THEN Put(insts, key, NewInstance(plugs[key], serial))
                ELSE insts
          m1 == IF created THEN Put(mk, key, serial) ELSE mk
          i2 == [i1 EXCEPT ![key] =
                    IF Len(args) > 0 /\ args[1].kind = "dict"
                    THEN [@ EXCEPT !.e = args[1].v] ELSE @]
      IN  IF method \notin TypeInfo(i2[key].type).methods
          THEN [instances |-> i2, made |-> m1, raised |-> BridgeUnknownMethod(method)]
          ELSE [instances |-> i2, made |-> m1, raised |-> NoError]

\* The message of _send_response(msg_id, data).
BridgeResponse(id, data) == [type |-> "response", id |-> id, data |-> data]

\* _send_message: print(json.dumps(message)); a failure goes to the logger
\* and nothing is written.
BridgeSendMessage(o, m, line) ==
    IF /\ stdout_ok
       /\ (m.type = "response" /\ "result" \in DOMAIN m.data)
              => Encodable(m.data.result)
    THEN Append(o, [msg |-> m, line |-> line])
    ELSE o

\* _send_response(msg_id, data)
BridgeSendResponse(o, id, data, line) ==
    BridgeSendMessage(o, BridgeResponse(id, data), line)

\* handle(message) of bridge.py, and the iteration of run() around it, for
\* the n-th line: the handler and the loader after it.
BridgeHandle(b, plugs, line, n) ==
    LET read == [b EXCEPT !.nread = n]
    IN  IF line.form # "json" THEN read
        ELSE IF line.type = "shutdown" THEN [read EXCEPT !.running = FALSE]
        ELSE IF line.type # "call" THEN read
        ELSE IF line.plugin = NoPlugin \/ line.method = Missing
        THEN [read EXCEPT !.out = BridgeSendResponse(@, line.id,
                  [error |-> KeyError(IF line.plugin = NoPlugin THEN "plugin"
                                      ELSE "method")], n)]
        ELSE LET r == BridgeCallMethodEnter(plugs, b.instances, b.made,
                                            line.plugin, line.method, line.args)
             IN  IF r.raised # NoError
                 THEN [read EXCEPT !.instances = r.instances, !.made = r.made,
                                   !.out = BridgeSendResponse(@, line.id,
                                               [error |-> r.raised], n)]
                 ELSE LET v == Invoke(r.instances[line.plugin], line.method)
                          i3 == [r.instances EXCEPT ![line.plugin] = v.inst]
                      IN  [read EXCEPT
                             !.instances = i3, !.made = r.made,
                             !.out = BridgeSendResponse(@, line.id,
                                        IF v.raised # NoError
                                        THEN [error |-> v.raised]
                                        ELSE [result |-> v.result], n)]

\* run() of bridge.py is entered: the ready message.
BridgeRun ==
    /\ pc # "main" /\ ~bridge.started
    /\ bridge' = [bridge EXCEPT !.started = TRUE,
                                !.out = BridgeSendMessage(@, ReadyMsg, 0)]
    /\ UNCHANGED <<argv, decl, tree, stdout_ok, plugins_dir, plugins, instances,
                   running, pc, cur, out, logged, nread, hist, made>>

\* bridge.py reads and handles the line python_bridge.py has just handled.
BridgeStep ==
    /\ bridge.started /\ bridge.running
    /\ bridge.nread < nread /\ pc # "calling"
    /\ bridge' = BridgeHandle(bridge, plugins, cur, nread)
    /\ UNCHANGED <<argv, decl, tree, stdout_ok, plugins_dir, plugins, instances,
                   running, pc, cur, out, logged, nread, hist, made>>

\* The host sends the next line when both bridges have had the last one.
PairCanRead == bridge.started /\ bridge.nread = nread

\* The load_plugins lines that fill the registry.
PairLoad ==
    /\ PairCanRead /\ CanRead
    /\ \E id \in {IdNone, "1"}, dir \in LoadDirs \ {Missing} :
           StepLoadPlugins(id, dir)

PairCall == PairCanRead /\ HandleCall

PairShutdown == PairCanRead /\ HandleShutdown

PairEmpty == PairCanRead /\ ReadEmpty

PairGarbage == PairCanRead /\ ReadGarbage

PairNonObject == PairCanRead /\ ReadNonObject

NextPair ==
    \/ Main
    \/ BridgeRun
    \/ PairLoad
    \/ PairCall
    \/ PairShutdown
    \/ PairEmpty
    \/ PairGarbage
    \/ PairNonObject
    \/ CallReturns
    \/ BridgeStep
    \/ ReadEOF
    \/ LoopExit

SpecPair == Init /\ [][NextPair]_vars

(***************************************************************************)
(* Properties.                                                             *)
(***************************************************************************)

\* Positions of the response messages on the protocol channel.
Responses == {j \in DOMAIN out : out[j].msg.type = "response"}

\* Positions of the responses written while line i was handled.
RespOf(i) == {j \in Responses : out[j].line = i}

\* The handling of line i is over.
Handled(i) == i < nread \/ (i = nread /\ pc # "calling")

Malformed == {"garbage", "nonobject"}

\* C1: every response written for a call carries the id of that call, and
\* its data carries exactly one of value and error.
C1_ResponseMatchesCall ==
    \A j \in Responses :
        hist[out[j].line].type = "call" =>
            /\ out[j].msg.id = hist[out[j].line].id
            /\ DOMAIN out[j].msg.data \in {{"value"}, {"error"}}

\* C1 witness: a value response and an error response to calls are on the
\* channel, one of them for a call without id.
C1_Witness ==
    \E j, k \in Responses :
        /\ hist[out[j].line].type = "call" /\ hist[out[k].line].type = "call"
        /\ DOMAIN out[j].msg.data = {"value"} /\ out[j].msg.id = IdNone
        /\ DOMAIN out[k].msg.data = {"error"} /\ out[k].msg.id = "1"

\* C2: every decoded call message, once handled, has produced exactly one
\* response, whatever its id.
C2_EveryCallAnswered ==
    \A i \in 1..nread :
        (hist[i].type = "call" /\ Handled(i)) => Cardinality(RespOf(i)) = 1

\* C3: responses are written in the order in which their calls were read.
C3_ResponsesInOrder ==
    \A j, k \in Responses : j < k => out[j].line < out[k].line

\* C3 witness: the responses to two calls are on the channel.
C3_Witness ==
    \E j, k \in Responses :
        /\ j < k
        /\ hist[out[j].line].type = "call" /\ hist[out[k].line].type = "call"
        /\ DOMAIN out[j].msg.data = {"value"}

\* A step that reads a malformed line writes nothing, leaves the registry
\* and the running flag alone and returns to the head of the loop.
C4_MalformedStep ==
    (nread' = nread + 1 /\ cur'.form \in Malformed) =>
        /\ out' = out
        /\ plugins' = plugins /\ instances' = instances /\ made' = made
        /\ running' = running
        /\ pc' = "loop"

\* Nothing on the channel was written for a malformed line.
C4_NoOutput ==
    \A i \in 1..nread :
        hist[i].form \in Malformed => \A j \in DOMAIN out : out[j].line # i

\* A malformed line between two answered calls: exactly two responses, the
\* first call's first.
C4_Scenario ==
    \A i \in 1..nread :
        ( /\ i + 2 <= nread /\ Handled(i + 2)
          /\ hist[i].type = "call" /\ hist[i + 2].type = "call"
          /\ hist[i + 1].form \in Malformed
          /\ RespOf(i) # {} /\ RespOf(i + 2) # {} )
        => /\ Cardinality(RespOf(i) \cup RespOf(i + 1) \cup RespOf(i + 2)) = 2
           /\ \A a \in RespOf(i), b \in RespOf(i + 2) : a < b

\* C4: a line that does not decode to a message (invalid JSON, or JSON that
\* is no object) stops nothing, is answered by nothing and changes nothing,
\* and the loop goes on to the next line; between two answered calls it
\* leaves exactly their two responses, in order.
C4_MalformedLineSkipped ==
    [][C4_MalformedStep]_vars /\ [](C4_NoOutput /\ C4_Scenario)

\* C4 witness: call, garbage, call were read and both calls are answered.
C4_Witness ==
    /\ nread = 3 /\ Handled(3)
    /\ hist[1].type = "call" /\ hist[2].form = "garbage" /\ hist[3].type = "call"
    /\ Cardinality(Responses) = 2
    /\ RespOf(1) # {} /\ RespOf(3) # {}

\* C5: once a shutdown message was handled no further line is read,
\* dispatched or answered: the shutdown is the last line of the history, the
\* running flag is down and the loop can only exit.
C5_NoReadAfterShutdown ==
    \A i \in 1..nread :
        hist[i].type = "shutdown" =>
            /\ i = nread
            /\ ~running
            /\ pc \in {"loop", "stopped"}
            /\ \A j \in DOMAIN out : out[j].line < i

\* C5 witness: the loop has stopped on a shutdown that came after a call,
\* with input lines left to send.
C5_Witness ==
    /\ pc = "stopped" /\ nread = 2 /\ nread < MaxLines
    /\ hist[1].type = "call" /\ hist[2].type = "shutdown"

\* C6: a call naming a key that is not registered is answered by a response
\* whose error text is not empty, and the loop goes on.
C6_UnknownPluginAnswered ==
    [][ ( /\ nread' = nread + 1
          /\ cur'.type = "call"
          /\ cur'.plugin # NoPlugin
          /\ cur'.plugin \notin DOMAIN plugins )
        => ( /\ Len(out') = Len(out) + 1
             /\ out'[Len(out')].msg.type = "response"
             /\ out'[Len(out')].msg.id = cur'.id
             /\ DOMAIN out'[Len(out')].msg.data = {"error"}
             /\ out'[Len(out')].msg.data.error.text # ""
             /\ pc' = "loop" /\ running' = running ) ]_vars

\* The constructor of the plugin the step calls raises.
C7_ConstructorRaises ==
    /\ nread' = nread + 1
    /\ cur'.type = "call" /\ cur'.method # Missing
    /\ cur'.plugin \in DOMAIN plugins
    /\ cur'.plugin \notin DOMAIN instances
    /\ TypeInfo(plugins[cur'.plugin]).ctorRaises

\* The method in flight raises.
C7_MethodRaises ==
    /\ pc = "calling" /\ pc' # "calling"
    /\ Invoke(instances[cur.plugin], cur.method).raised # NoError

\* C7: an exception raised by a plugin's method or constructor during a call
\* becomes a response carrying the error's text, and the loop keeps running.
C7_PluginErrorAnswered ==
    [][ (C7_ConstructorRaises \/ C7_MethodRaises)
        => ( /\ Len(out') = Len(out) + 1
             /\ out'[Len(out')].msg.type = "response"
             /\ out'[Len(out')].msg.id = cur'.id
             /\ DOMAIN out'[Len(out')].msg.data = {"error"}
             /\ out'[Len(out')].msg.data.error.exc = "Exception"
             /\ pc' = "loop" /\ running' = running ) ]_vars

\* At most one live instance was ever constructed for a key, and it is the
\* one registered.
C8_AtMostOne ==
    \A k \in DOMAIN made :
        made[k] = 1 /\ k \in DOMAIN instances /\ instances[k].serial = 1

\* A live instance stays: same object, its private state kept.
C8_Kept ==
    \A k \in DOMAIN instances :
        /\ k \in DOMAIN instances'
        /\ instances'[k].serial = instances[k].serial
        /\ instances'[k].type = instances[k].type
        /\ instances'[k].count >= instances[k].count

\* C8: the first call to a key constructs its one live instance, every later
\* call runs on that instance, and no instance is ever replaced or dropped.
C8_OneInstancePerKey == []C8_AtMostOne /\ [][C8_Kept]_vars

\* C8 witness: two calls have run on the one instance of a key.
C8_Witness ==
    \E k \in DOMAIN instances : instances[k].count = 2 /\ made[k] = 1

\* The plugin classes a discovery pass over root finds: <<folder, file,
\* class>> for every class deriving from the base in a file the pass loads.
PluginClassesIn(root) ==
    IF root \notin ExistingDirs THEN {}
    ELSE LET L == Listing(root)
             Loaded(d) ==
                 IF \E i \in DOMAIN d.files : d.files[i].name = "index.py"
                 THEN {i \in DOMAIN d.files : d.files[i].name = "index.py"}
                 ELSE {i \in DOMAIN d.files :
                          /\ IsPyFile(d.files[i].name)
                          /\ ~StartsWithDunder(d.files[i].name)
                          /\ ~d.files[i].loadFails}
         IN  UNION { UNION { { <<L[n].name, L[n].files[i].name, L[n].files[i].types[c]>> :
                                 c \in {x \in DOMAIN L[n].files[i].types :
                                          IsPluginClass(L[n].files[i].types[x])} } :
                             i \in Loaded(L[n]) } :
                     n \in {x \in DOMAIN L : L[x].isDir /\ ~StartsWithDunder(L[x].name)} }

\* Positions of the plugin_registered events written while line i was handled.
EventsOf(i) ==
    {j \in DOMAIN out : out[j].line = i /\ out[j].msg.type = "plugin_registered"}

\* C9: a discovery pass writes exactly one plugin_registered event per plugin
\* class found, none for the base class, and the events name pairwise
\* distinct registered plugins.
C9_OneEventPerPlugin ==
    (cur.type = "load_plugins" /\ cur.dir # Missing) =>
        /\ Cardinality(EventsOf(nread)) = Cardinality(PluginClassesIn(cur.dir))
        /\ \A j \in EventsOf(nread) : out[j].msg.data.name # "PythonPlugin"
        /\ \A j, k \in EventsOf(nread) :
               j # k => out[j].msg.data.key # out[k].msg.data.key
        /\ \A j \in EventsOf(nread) :
               /\ out[j].msg.data.key \in DOMAIN plugins
               /\ TypeInfo(plugins[out[j].msg.data.key]).name = out[j].msg.data.name

\* Position of the ready message on the channel (0: not written).
ReadyAt ==
    IF \E j \in DOMAIN out : out[j].msg.type = "ready"
    THEN CHOOSE j \in DOMAIN out : out[j].msg.type = "ready"
    ELSE 0

\* C10: when ready is on the channel, every plugin under the root configured
\* at startup is registered and was announced before ready.
C10_DiscoveredBeforeReady ==
    ReadyAt > 0 =>
        \A c \in PluginClassesIn(plugins_dir) :
            /\ PluginKey(c[1], c[2]) \in DOMAIN plugins
            /\ \E j \in 1..(ReadyAt - 1) :
                   /\ out[j].msg.type = "plugin_registered"
                   /\ out[j].msg.data.key = PluginKey(c[1], c[2])

\* C11: one run writes exactly one ready message; it is written before the
\* first input line is read, so nothing written while a line was handled,
\* and in particular no response, comes before it.
C11_OneReadyFirst ==
    /\ pc = "main" => (out = << >> /\ nread = 0)
    /\ pc # "main" =>
          /\ Cardinality({j \in DOMAIN out : out[j].msg.type = "ready"}) = 1
          /\ out[ReadyAt].line = 0
          /\ \A j \in DOMAIN out : out[j].line >= 1 => ReadyAt < j
          /\ \A j \in Responses : ReadyAt < j

\* C11 witness: a run has ended after reading every line of the host and
\* answering a call.
C11_Witness ==
    /\ pc = "stopped" /\ nread = MaxLines
    /\ Responses # {}
    /\ ReadyAt = 1

\* Positions of the plugin_registered events that name the plugin Echo.
EchoEvents ==
    {j \in DOMAIN out : /\ out[j].msg.type = "plugin_registered"
                        /\ out[j].msg.data.name = "Echo"}

\* The line read last is the call of the scenario, to the key k, and its
\* handling is over.
C12_CallTo(k) ==
    /\ cur.type = "call" /\ cur.id = "1" /\ cur.plugin = k /\ cur.method = "say"
    /\ Handled(nread)

\* The one response written for the line read last carries the id "1" and,
\* as data.value, what say returned: the instance's call count and the
\* context it ran with.
C12_ValueOfSay ==
    \E j \in RespOf(nread) :
        /\ RespOf(nread) = {j}
        /\ out[j].msg.id = "1"
        /\ DOMAIN out[j].msg.data = {"value"}
        /\ cur.plugin \in DOMAIN instances
        /\ out[j].msg.data.value =
               JsonValue(instances[cur.plugin].count, instances[cur.plugin].e)

\* C12 as stated: discovery of the root with echo/index.py announces the
\* plugin named Echo, and a later call with id "1", plugin "echo/index",
\* method "say" is answered by a response with id "1" and the value say
\* returned.
C12_EchoIndexAnswered ==
    /\ (cur.type = "load_plugins" /\ cur.dir = "R1") =>
           \E j \in EventsOf(nread) : out[j].msg.data.name = "Echo"
    /\ (EchoEvents # {} /\ C12_CallTo(<<"echo", "index">>)) => C12_ValueOfSay

\* C12, amended: discovery of the root with echo/index.py announces the
\* plugin named Echo under the key "echo/index.py" (the file name with its
\* suffix); a later call with id "1", method "say" and the announced key is
\* answered by a response with id "1" and the value say returned, and one
\* that names "echo/index" is answered by the error of an unknown plugin.
C12_AnnouncedKeyAnswered ==
    /\ (cur.type = "load_plugins" /\ cur.dir = "R1") =>
           \E j \in EventsOf(nread) :
               /\ out[j].msg.data.name = "Echo"
               /\ out[j].msg.data.key = <<"echo", "index.py">>
    /\ \A e \in EchoEvents : C12_CallTo(out[e].msg.data.key) => C12_ValueOfSay
    /\ (EchoEvents # {} /\ C12_CallTo(<<"echo", "index">>)) =>
           \E j \in RespOf(nread) :
               /\ RespOf(nread) = {j}
               /\ out[j].msg.id = "1"
               /\ DOMAIN out[j].msg.data = {"error"}
               /\ out[j].msg.data.error = UnknownPlugin(<<"echo", "index">>)

\* C12 witness: R1 was loaded and the next line, a call to the announced
\* key with a context, has been answered with say's value.
C12_Witness ==
    /\ nread = 2 /\ hist[1].type = "load_plugins"
    /\ EchoEvents # {}
    /\ C12_CallTo(<<"echo", "index.py">>)
    /\ cur.args = <<DictArg("e1")>>
    /\ C12_ValueOfSay

\* C13: the loop stops on a shutdown message or at the end of input and in
\* no other way, and every run over a finite stream that ends, whose calls
\* return, does stop; run() then returns and the process exits normally.
C13_CleanStop ==
    /\ <>(pc = "stopped")
    /\ [](pc = "stopped" => (cur.type = "shutdown" \/ running))

\* C13 witness: the loop has stopped at the end of a stream that held no
\* shutdown, after a call was answered.
C13_Witness ==
    /\ pc = "stopped" /\ running /\ nread = EchoLines
    /\ Responses # {}

\* C14: a signal leads to the stop of the loop: once it is delivered the
\* loop eventually exits, whatever the host does, also if it sends no
\* further line and does not close the stream.
C14_SignalLeadsToStop == (Signals > 0) ~> (pc = "stopped")

\* The files of a root that a discovery pass tries to load and fails on:
\* the module raises, or the construction of a plugin class in it does.
FailingFilesIn(root) ==
    IF root \notin ExistingDirs THEN {}
    ELSE LET L == Listing(root)
             Tried(d) ==
                 IF \E i \in DOMAIN d.files : d.files[i].name = "index.py"
                 THEN {i \in DOMAIN d.files : d.files[i].name = "index.py"}
                 ELSE {i \in DOMAIN d.files :
                          /\ IsPyFile(d.files[i].name)
                          /\ ~StartsWithDunder(d.files[i].name)}
             Fails(f) ==
                 \/ f.loadFails
                 \/ \E c \in DOMAIN f.types :
                        IsPluginClass(f.types[c]) /\ TypeInfo(f.types[c]).ctorRaises
         IN  UNION { { <<L[n].name, L[n].files[i].name>> :
                           i \in {x \in Tried(L[n]) : Fails(L[n].files[x])} } :
                     n \in {x \in DOMAIN L : L[x].isDir /\ ~StartsWithDunder(L[x].name)} }

\* The plugin classes of the files of a root that load without failure.
LoadableClassesIn(root) ==
    {c \in PluginClassesIn(root) : <<c[1], c[2]>> \notin FailingFilesIn(root)}

\* C15: when a file of a discovery pass fails to load (its module raises,
\* or the construction of the transient instance does), the failure is
\* reported to the host by a log event, and every plugin of the other files
\* of the pass is registered and announced all the same.
C15_LoadFailureReported ==
    (cur.type = "load_plugins" /\ cur.dir # Missing
        /\ FailingFilesIn(cur.dir) # {}) =>
        /\ \E j \in DOMAIN out : out[j].line = nread /\ out[j].msg.type = "log"
        /\ \A c \in LoadableClassesIn(cur.dir) :
               /\ PluginKey(c[1], c[2]) \in DOMAIN plugins
               /\ \E j \in EventsOf(nread) :
                      out[j].msg.data.key = PluginKey(c[1], c[2])

\* The data of the plugin_registered event written last.
LastEvent == out[Len(out)].msg.data

\* C16: the plugin_registered event of a plugin carries its rules and its
\* tasks in the order of declaration, and each of them, rebuilt from its
\* serialized form with the absent fields at their defaults, is field for
\* field the rule or task the plugin declared.
C16_RoundTrip ==
    pc = "announced" =>
        /\ Len(LastEvent.rule) = Len(decl.rule)
        /\ \A i \in DOMAIN decl.rule :
               RuleFromDict(LastEvent.rule[i]) = decl.rule[i]
        /\ Len(LastEvent.task) = Len(decl.task)
        /\ \A i \in DOMAIN decl.task :
               TaskFromDict(LastEvent.task[i]) = decl.task[i]

\* C16 witness: the event of a plugin with two different rules, the first
\* without pattern and the second with values that are not the defaults,
\* and a task without name, in which the pattern of the first rule is left
\* out.
C16_Witness ==
    /\ pc = "announced"
    /\ Len(decl.rule) = 2 /\ Len(decl.task) = 1
    /\ decl.rule[1].reg = None /\ decl.rule[2].reg # None
    /\ decl.rule[2].log = "False" /\ decl.rule[2].fnc = ""
    /\ decl.task[1].name = None
    /\ "reg" \notin DOMAIN LastEvent.rule[1]
    /\ "reg" \in DOMAIN LastEvent.rule[2]

\* C17: a step that handles a decoded message whose type is none of call,
\* load_plugins and shutdown writes nothing on the protocol channel and
\* leaves the registered types, the live instances with their call contexts
\* and the running flag as they were.
C17_OtherTypeIsNoOp ==
    [][ ( /\ nread' = nread + 1
          /\ cur'.form = "json"
          /\ cur'.type \notin {"call", "load_plugins", "shutdown"} )
        => ( /\ out' = out
             /\ plugins' = plugins
             /\ instances' = instances
             /\ running' = running ) ]_vars

\* C17 witness: a message of another type, with an id, was handled when a
\* plugin was registered and its live instance had a call context.
C17_Witness ==
    /\ cur.form = "json" /\ cur.type = "other" /\ cur.id = "1"
    /\ \E k \in DOMAIN instances : instances[k].e # None
    /\ running /\ pc = "loop"

\* The file of a root, by folder and name.
FileAt(root, folder, file) ==
    LET L == Listing(root)
        n == CHOOSE x \in DOMAIN L : L[x].isDir /\ L[x].name = folder
        i == CHOOSE x \in DOMAIN L[n].files : L[n].files[x].name = file
    IN  L[n].files[i]

\* The keys a discovery pass over root registers.
KeysIn(root) == { PluginKey(c[1], c[2]) : c \in PluginClassesIn(root) }

\* The plugin class of a file that is loaded last: the last one in dir()
\* order, or the first one whose construction raises.
LastLoaded(types) ==
    LET reached == {i \in DOMAIN types :
                       /\ IsPluginClass(types[i])
                       /\ \A j \in 1..(i - 1) :
                              IsPluginClass(types[j]) => ~TypeInfo(types[j]).ctorRaises}
    IN  types[CHOOSE i \in reached : \A j \in reached : j <= i]

\* The type a discovery pass over root leaves registered under key k.
LastTypeIn(root, k) ==
    LET c == CHOOSE x \in PluginClassesIn(root) : PluginKey(x[1], x[2]) = k
    IN  LastLoaded(FileAt(root, c[1], c[2]).types)

\* The step handles a load_plugins message that names a directory.
LoadStep ==
    nread' = nread + 1 /\ cur'.type = "load_plugins" /\ cur'.dir # Missing

\* A rescan stores the type it found last under each key it finds, and
\* touches no live instance.
C18_Rescan ==
    LoadStep =>
        /\ instances' = instances /\ made' = made
        /\ \A k \in KeysIn(cur'.dir) :
               k \in DOMAIN plugins' /\ plugins'[k] = LastTypeIn(cur'.dir, k)

\* A live instance stays the object it was, of the type it was built from,
\* whatever type is registered under its key, and a call of say counts on
\* in its state.
C18_OldInstanceRuns ==
    \A k \in DOMAIN instances :
        /\ k \in DOMAIN instances'
        /\ instances'[k].serial = instances[k].serial
        /\ instances'[k].type = instances[k].type
        /\ (pc = "calling" /\ pc' # "calling" /\ cur.plugin = k /\ cur.method = "say")
               => /\ instances'[k].count = instances[k].count + 1
                  /\ \E j \in DOMAIN out' :
                         /\ out'[j].line = nread
                         /\ out'[j].msg.type = "response"
                         /\ DOMAIN out'[j].msg.data = {"value"}
                         /\ out'[j].msg.data.value.n = instances[k].count + 1

\* C18: a load_plugins that finds a key again stores the new type under the
\* key and leaves the key's live instance in place, so that later calls to
\* the key run on the old instance and its state.
C18_RescanKeepsInstance == [][C18_Rescan /\ C18_OldInstanceRuns]_vars

\* C18 witness: the echo plugin was loaded and called, a rescan registered
\* another type under its key, and a second call ran on the old instance.
C18_Witness ==
    /\ nread = 4 /\ Handled(4)
    /\ \E k \in DOMAIN instances :
           /\ plugins[k] = "EchoV2"
           /\ instances[k].type = "Echo"
           /\ instances[k].count = 2 /\ made[k] = 1
           /\ cur.plugin = k

\* The keys that a discovery pass over root finds already registered, or
\* finds twice.
DuplicateKeys(root) ==
    {k \in KeysIn(root) :
        \/ k \in DOMAIN plugins
        \/ Cardinality({c \in PluginClassesIn(root) : PluginKey(c[1], c[2]) = k}) > 1}

\* The step wrote a warning: a record of the logger, or a log event on the
\* protocol channel.
WarningWritten ==
    \/ \E i \in DOMAIN logged' : logged'[i].level = "warning"
    \/ \E j \in DOMAIN out' \ DOMAIN out :
           /\ out'[j].msg.type = "log"
           /\ out'[j].msg.data.level = "warning"

C20_SeenByMethod ==
    (pc = "calling" /\ Len(cur.args) > 0 /\ cur.args[1].kind = "dict") =>
        instances[cur.plugin].e = cur.args[1].v

\* The step reads a call that names the key k and a method and whose
\* args[0] is a mapping.
C20_SuppliesContext(k) ==
    /\ nread' = nread + 1
    /\ cur'.type = "call" /\ cur'.plugin = k /\ cur'.method # Missing
    /\ Len(cur'.args) > 0 /\ cur'.args[1].kind = "dict"

\* A call that supplies a mapping makes it the context of the key's
\* instance; any other step leaves the context of an instance as it is, and
\* a new instance has none.
C20_ContextStep ==
    \A k \in DOMAIN instances' :
        IF C20_SuppliesContext(k) THEN instances'[k].e = cur'.args[1].v
        ELSE IF k \in DOMAIN instances THEN instances'[k].e = instances[k].e
        ELSE instances'[k].e = None

\* C20: the mapping given as args[0] of a call is the instance's context
\* when the method runs and replaces the context the instance had; nothing
\* else changes a context, so the context of an instance is always the
\* mapping of the last call to its key that supplied one.
C20_ContextIsLastMapping == []C20_SeenByMethod /\ [][C20_ContextStep]_vars

\* C20 witness: an instance that ran a method with the context e1 now has
\* the context e2.
C20_Witness ==
    \E k \in DOMAIN instances :
        /\ instances[k].e = "e2"
        /\ \E j \in Responses :
               /\ DOMAIN out[j].msg.data = {"value"}
               /\ out[j].msg.data.value.ctx = "e1"

\* The step reads a call to a registered key whose instance does not expose
\* the method named.
C21_UnknownMethodStep ==
    /\ nread' = nread + 1
    /\ cur'.type = "call" /\ cur'.method # Missing
    /\ cur'.plugin \in DOMAIN plugins
    /\ cur'.plugin \in DOMAIN instances'
    /\ cur'.method \notin TypeInfo(instances'[cur'.plugin].type).methods

\* The method in flight returns a result.
C21_MethodReturns ==
    /\ pc = "calling" /\ pc' # "calling"
    /\ Invoke(instances[cur.plugin], cur.method).raised = NoError

\* C21: a call that names a method the instance does not expose is answered
\* by a response whose error says that the method does not exist, and the
\* loop goes on; a call that names a method the instance exposes runs it
\* and is answered by a response whose value is the result, unchanged.
C21_MethodLookupAnswered ==
    [][ /\ C21_UnknownMethodStep =>
              /\ Len(out') = Len(out) + 1
              /\ out'[Len(out')].msg =
                     ErrorResponse(cur'.id, UnknownMethod(cur'.plugin, cur'.method))
              /\ pc' = "loop" /\ running' = running
        /\ C21_MethodReturns =>
              /\ Len(out') = Len(out) + 1
              /\ out'[Len(out')].msg =
                     ValueResponse(cur.id,
                         Invoke(instances[cur.plugin], cur.method).result)
              /\ pc' = "loop" /\ running' = running ]_vars

\* Every message a step writes carries the number of the line n as its tag.
WrittenFor(n) ==
    /\ Len(out') >= Len(out)
    /\ \A j \in DOMAIN out : out'[j] = out[j]
    /\ \A j \in DOMAIN out' \ DOMAIN out : out'[j].line = n

\* While a method is in flight it is the one method in flight, the call of
\* the line read last, and that line has no response yet.
C22_OneInFlight ==
    pc = "calling" =>
        /\ cur.type = "call" /\ cur.plugin \in DOMAIN instances
        /\ RespOf(nread) = {}

\* No line is read while a method is in flight: the step that ends the
\* flight writes the response of its own line and changes no other
\* instance; a step that reads a line finds the handling of the line before
\* over, and writes for the line it reads.
C22_Step ==
    /\ pc = "calling" =>
          /\ nread' = nread /\ cur' = cur /\ pc' = "loop"
          /\ WrittenFor(nread)
          /\ \A k \in DOMAIN instances \ {cur.plugin} : instances'[k] = instances[k]
          /\ instances'[cur.plugin].e = instances[cur.plugin].e
    /\ nread' = nread + 1 =>
          /\ pc # "calling" /\ Handled(nread)
          /\ WrittenFor(nread + 1)

\* C22: messages are handled one after the other: at most one plugin method
\* is in flight, and line N+1 is read only when the handling of line N, its
\* response included, is over, so that two calls on one instance never
\* overlap and a method's context is not replaced while it runs.
C22_SingleFlow == []C22_OneInFlight /\ [][C22_Step]_vars

\* C22 witness: two calls have run on one instance, one after the other,
\* and their responses are on the channel in that order.
C22_Witness ==
    \E k \in DOMAIN instances :
        /\ instances[k].count = 2
        /\ pc = "loop" /\ cur.plugin = k /\ Handled(nread)
        /\ \E i, j \in Responses :
               /\ i < j
               /\ DOMAIN out[i].msg.data = {"value"} /\ out[i].msg.data.value.n = 1
               /\ DOMAIN out[j].msg.data = {"value"} /\ out[j].msg.data.value.n = 2

\* C23: once the running flag is down, by a shutdown message or by a
\* signal, no further line is read or dispatched, so that a call that
\* arrives after the signal is neither run nor answered; a method that is in
\* flight when the flag goes down still returns and its response is
\* written.
C23_NoDispatchAfterStop ==
    [][ /\ ~running => nread' = nread
        /\ (pc = "calling" /\ ~running /\ pc' # "calling") =>
               (Len(out') = Len(out) + 1 /\ out'[Len(out')].msg.type = "response")
        /\ (pc = "calling" /\ running /\ ~running') => pc' = "calling" ]_vars

\* The step had a write to standard output fail.
WriteFailed ==
    \E i \in DOMAIN logged' : logged'[i] = LogRec("stderr", "failed to send message")

\* The step is one that sends a message whatever happens: main() with its
\* ready message, and the return of a method that is answered.
C24_MustSend ==
    \/ pc = "main" /\ pc' # "main"
    \/ /\ pc = "calling" /\ pc' # "calling"
       /\ (Invoke(instances[cur.plugin], cur.method).raised # NoError
              => Truthy(cur.id))

\* C24: a write to standard output that fails (the message cannot be
\* encoded, or the pipe is closed) is caught inside send_message: the step
\* ends as it would have ended, the loop goes on to its next iteration with
\* the flag as it was, nothing is written on the protocol channel about the
\* failure, and the failure is written on the diagnostic stream.
C24_WriteFailureContained ==
    [][ /\ WriteFailed =>
              /\ out' = out
              /\ pc' \in {"loop", "calling"}
              /\ running' = running
        /\ (C24_MustSend /\ out' = out) => WriteFailed ]_vars

\* C24 witness: the loop is running after a result that could not be
\* encoded was dropped, and after the pipe was closed under a later call.
C24_Witness ==
    /\ ~stdout_ok /\ pc = "loop" /\ running
    /\ nread = 3 /\ cur.type = "call" /\ cur.method = "say"
    /\ logged = << LogRec("stderr", "failed to send message") >>
    /\ Responses = {}
    /\ \E k \in DOMAIN instances : instances[k].count = 1

\* The step dispatches the first call to a registered key that has no live
\* instance, up to the invocation of the method.
C25_FirstCall(k) ==
    /\ nread' = nread + 1 /\ cur'.type = "call" /\ cur'.plugin = k
    /\ k \in DOMAIN plugins /\ k \notin DOMAIN instances
    /\ pc' = "calling"

\* The instances are those that calls constructed, one for each key called.
C25_OnlyCallsConstruct ==
    /\ DOMAIN instances = DOMAIN made
    /\ \A k \in DOMAIN instances :
           /\ made[k] = 1 /\ instances[k].serial = 1
           /\ \E i \in DOMAIN hist : hist[i].type = "call"

\* C25: discovery stores types only.  A load_plugins message, whatever it
\* registers, leaves the mapping from keys to instances exactly as it was and
\* constructs no instance that stays; the first call to a discovered key
\* runs on an instance constructed by that call: of the registered type,
\* with its private state as the constructor leaves it and with no context
\* but the one the call brings.
C25_DiscoveryStoresTypesOnly ==
    /\ []C25_OnlyCallsConstruct
    /\ [][ /\ (nread' = nread + 1 /\ cur'.type = "load_plugins") =>
                 /\ instances' = instances /\ made' = made
                 /\ \A k \in DOMAIN plugins' : k \in DOMAIN instances' =>
                        k \in DOMAIN instances
           /\ \A k \in DOMAIN plugins : C25_FirstCall(k) =>
                 /\ k \in DOMAIN instances'
                 /\ instances'[k].type = plugins[k]
                 /\ instances'[k].count = 0
                 /\ instances'[k].serial = 1 /\ k \notin DOMAIN made
                 /\ instances'[k].e =
                       (IF Len(cur'.args) > 0 /\ cur'.args[1].kind = "dict"
                        THEN cur'.args[1].v ELSE None) ]_vars

\* C25 witness: a discovery registered the echo plugin without an instance,
\* and the first call to it was answered by a new instance: its counter
\* says 1.
C25_Witness ==
    /\ nread = 2 /\ Handled(2) /\ hist[1].type = "load_plugins"
    /\ cur.type = "call" /\ cur.plugin \in DOMAIN instances
    /\ instances[cur.plugin].count = 1 /\ made[cur.plugin] = 1
    /\ \E j \in DOMAIN out :
           /\ out[j].line = 2 /\ out[j].msg.type = "response"
           /\ DOMAIN out[j].msg.data = {"value"}
           /\ out[j].msg.data.value.n = 1

\* The files the claim has a discovery pass over a root load, as
\* <<directory, file>>: of every directory without the reserved prefix the
\* file index.py if there is one, else every .py file without the prefix.
C26_FilesToLoad(entries) ==
    UNION { IF \E i \in DOMAIN entries[n].files : entries[n].files[i].name = "index.py"
            THEN { <<entries[n].name, "index.py">> }
            ELSE { <<entries[n].name, entries[n].files[i].name>> :
                     i \in {x \in DOMAIN entries[n].files :
                              /\ IsPyFile(entries[n].files[x].name)
                              /\ ~StartsWithDunder(entries[n].files[x].name)} } :
            n \in {x \in DOMAIN entries :
                     entries[x].isDir /\ ~StartsWithDunder(entries[x].name)} }

\* C26: a discovery pass loads, of every immediate subdirectory of the root
\* whose name does not start with "__", the file index.py alone if there
\* is one and else every .py file whose name does not start with "__";
\* directories with the prefix and files of the root itself contribute no
\* plugin.  (Every source file of a root defines a plugin class, so the
\* files loaded are those whose key is registered.)
C26_FilesLoaded ==
    pc = "scanned" => DOMAIN plugins = C26_FilesToLoad(tree)

\* The loader of python_bridge.py loads the files of C26.
C26_PythonBridgeLoads ==
    (pc = "scanned" /\ argv[1] = "python_bridge.py")
        => DOMAIN plugins = C26_FilesToLoad(tree)

\* The loader of bridge.py loads the files of C26 and the .py files of the
\* root itself.
C26_BridgeLoads ==
    (pc = "scanned" /\ argv[1] = "bridge.py")
        => DOMAIN plugins = C26_FilesToLoad(tree) \cup
               { <<tree[n].name>> : n \in {x \in DOMAIN tree :
                                             ~tree[x].isDir /\ IsPyFile(tree[x].name)} }

\* C27: every key of the mapping from keys to types has been announced: at
\* least one plugin_registered event with that key was written, also when
\* the construction of the transient instance raised.
C27_RegisteredIsAnnounced ==
    \A k \in DOMAIN plugins :
        \E j \in DOMAIN out :
            /\ out[j].msg.type = "plugin_registered"
            /\ out[j].msg.data.key = k

\* The keys registered without an event are those of a type whose
\* constructor raises.
C27_SilentKeysCrash ==
    \A k \in DOMAIN plugins :
        \/ TypeInfo(plugins[k]).ctorRaises
        \/ \E j \in DOMAIN out :
               /\ out[j].msg.type = "plugin_registered"
               /\ out[j].msg.data.key = k

\* C28: every response answers a call: it was written while a call message
\* was handled and carries that call's id; no response is written for a
\* load_plugins, a shutdown or a message of another type, whatever its
\* fields are.
C28_ResponsesAnswerCalls ==
    \A j \in Responses :
        /\ out[j].line \in DOMAIN hist
        /\ hist[out[j].line].type = "call"
        /\ out[j].msg.id = hist[out[j].line].id

\* The responses that answer no call answer a load_plugins message that
\* has an id and no data, with the error of the missing field.
C28_OnlyLoadWithoutData ==
    \A j \in Responses :
        /\ out[j].line \in DOMAIN hist
        /\ hist[out[j].line].type \in {"call", "load_plugins"}
        /\ out[j].msg.id = hist[out[j].line].id
        /\ hist[out[j].line].type = "load_plugins" =>
               /\ Truthy(out[j].msg.id)
               /\ out[j].msg = ErrorResponse(out[j].msg.id, KeyError("data"))

\* The step reads a call to a registered key, of a type that can be
\* constructed, naming a method the key's instance does not expose.
C29_UnknownMethodCall ==
    /\ nread' = nread + 1
    /\ cur'.type = "call" /\ cur'.method # Missing
    /\ cur'.plugin \in DOMAIN plugins
    /\ LET k == cur'.plugin
           t == IF k \in DOMAIN instances THEN instances[k].type ELSE plugins[k]
       IN  /\ k \notin DOMAIN instances => ~TypeInfo(t).ctorRaises
           /\ cur'.method \notin TypeInfo(t).methods

\* args[0] of the line just read is a mapping.
C29_BringsContext == Len(cur'.args) > 0 /\ cur'.args[1].kind = "dict"

\* C29: a call to a registered key that names a method that does not exist
\* fails with its side effects done: the key has a live instance afterwards,
\* constructed by this call if there was none, and a mapping in args[0] is
\* the call context of the instance; so the registry after the error
\* differs from the registry before the call whenever an instance was
\* constructed or the context replaced.
C29_FailedCallHasEffects ==
    [][ C29_UnknownMethodCall =>
          LET k == cur'.plugin
          IN  /\ pc' = "loop"
              /\ Truthy(cur'.id) =>
                     /\ Len(out') = Len(out) + 1
                     /\ out'[Len(out')].msg =
                            ErrorResponse(cur'.id, UnknownMethod(k, cur'.method))
              /\ k \in DOMAIN instances'
              /\ k \notin DOMAIN instances =>
                     /\ instances'[k].type = plugins[k]
                     /\ instances'[k].count = 0
                     /\ k \in DOMAIN made' /\ made' # made
                     /\ instances' # instances
              /\ C29_BringsContext =>
                     /\ instances'[k].e = cur'.args[1].v
                     /\ (k \in DOMAIN instances /\ instances[k].e # cur'.args[1].v)
                            => instances' # instances
              /\ \A x \in DOMAIN instances' \ {k} :
                     x \in DOMAIN instances /\ instances'[x] = instances[x] ]_vars

\* C29 witness: the first call to the echo plugin named a method that does
\* not exist and was answered by an error; the plugin has a live instance
\* that never ran a method and holds the context of the failed call.
C29_Witness ==
    /\ pc = "loop" /\ cur.type = "call" /\ cur.method = NoSuchMethod
    /\ cur.plugin \in DOMAIN instances
    /\ instances[cur.plugin].count = 0
    /\ instances[cur.plugin].e = "e2"
    /\ made[cur.plugin] = 1
    /\ \E j \in RespOf(nread) :
           out[j].msg = ErrorResponse("1", UnknownMethod(cur.plugin, NoSuchMethod))

\* The line is a call whose args are empty or begin with something that is
\* not a mapping.
C30_NoMapping(line) ==
    /\ line.type = "call" /\ line.method # Missing
    /\ (Len(line.args) = 0 \/ line.args[1].kind # "dict")

\* The dispatch of a call without a mapping leaves the context of the key's
\* instance as it was (a new instance has none), and the method sees it.
C30_Dispatch ==
    (nread' = nread + 1 /\ C30_NoMapping(cur') /\ cur'.plugin \in DOMAIN instances')
        => LET k == cur'.plugin
           IN  instances'[k].e =
                   (IF k \in DOMAIN instances THEN instances[k].e ELSE None)

\* A method say that returns from a call without a mapping reports the
\* context the instance had when the call arrived.
C30_Return ==
    (pc = "calling" /\ pc' # "calling" /\ C30_NoMapping(cur) /\ cur.method = "say")
        => /\ Len(out') = Len(out) + 1
           /\ out'[Len(out')].msg =
                  ValueResponse(cur.id, JsonValue(instances[cur.plugin].count + 1,
                                                  instances[cur.plugin].e))
           /\ instances'[cur.plugin].e = instances[cur.plugin].e

\* C30: a call without args, or with an args[0] that is not a mapping,
\* leaves the call context of the instance untouched: its method runs with
\* the context that the last call to the key with a mapping installed, or
\* with none if there was no such call.
C30_ContextUntouched == [][C30_Dispatch /\ C30_Return]_vars

\* C30 witness: a call of say whose args[0] is a string has returned, and
\* its result shows the context e1 of the call before it.
C30_Witness ==
    /\ pc = "loop" /\ C30_NoMapping(cur) /\ Len(cur.args) > 0
    /\ \E j \in RespOf(nread) :
           /\ DOMAIN out[j].msg.data = {"value"}
           /\ out[j].msg.data.value.ctx = "e1"
           /\ out[j].msg.data.value.n = 2

\* What the step wrote on the protocol channel.
C31_Written == SubSeq(out', Len(out) + 1, Len(out'))

\* C31: a load_plugins message that names a directory writes nothing but
\* plugin_registered events on the protocol channel, tagged with that line,
\* and no response, with or without an id: the
\* host gets no acknowledgement that the scan is over; and when the
\* directory does not exist the step writes nothing on the channel at all.
C31_LoadIsNotAnswered ==
    [][ LoadStep =>
          /\ Len(out') >= Len(out)
          /\ SubSeq(out', 1, Len(out)) = out
          /\ \A i \in DOMAIN C31_Written :
                 /\ C31_Written[i].msg.type = "plugin_registered"
                 /\ C31_Written[i].line = nread'
          /\ cur'.dir \notin ExistingDirs => out' = out
          /\ pc' = "loop" /\ running' = running ]_vars

\* C31 witness: a load_plugins with an id scanned a root and wrote events
\* only; a second one, with an id, named a directory that does not exist
\* and wrote nothing.
C31_Witness ==
    /\ nread = 2 /\ pc = "loop"
    /\ hist[1].type = "load_plugins" /\ hist[1].id = "1"
    /\ cur.type = "load_plugins" /\ cur.id = "1" /\ cur.dir = NoDir
    /\ \E j \in DOMAIN out : out[j].line = 1
    /\ \A j \in DOMAIN out :
           /\ out[j].line # 2
           /\ out[j].line = 1 => out[j].msg.type = "plugin_registered"

\* What a response shows of itself: its id, the names of its payload
\* fields, and whether it reports success or an error.
C32_Shape(e) ==
    [id |-> e.msg.id, fields |-> DOMAIN e.msg.data,
     ok |-> "error" \notin DOMAIN e.msg.data]

C32_IsResponse(e) == e.msg.type = "response"

\* The responses of a channel, in order, each by its shape.
C32_ResponseShapes(o) ==
    LET r == SelectSeq(o, C32_IsResponse)
    IN  [i \in DOMAIN r |-> C32_Shape(r[i])]

\* Both bridges have handled every line sent.
C32_BothIdle == bridge.started /\ bridge.nread = nread /\ pc # "calling"

\* C32: bridge.py and python_bridge.py, given the same registry and the same
\* lines, write the same sequence of responses: as many, in the same order,
\* with the same ids, the same outcome (success or error) and the same
\* payload field names.
C32_SameResponses ==
    C32_BothIdle => C32_ResponseShapes(out) = C32_ResponseShapes(bridge.out)

\* The response python_bridge.py answers a line with, seen as bridge.py
\* writes it: the success payload is named result.
C32_AsBridge(s) ==
    [s EXCEPT !.fields = IF s.ok THEN {"result"} ELSE @]

\* bridge.py answers a failed call that has no id, or the id 0 or "".
C32_OnlyBridgeAnswers(s) == ~s.ok /\ ~Truthy(s.id)

\* The two sequences differ in exactly two ways: bridge.py names the success
\* payload result where python_bridge.py names it value, and bridge.py
\* answers the failed calls whose id is false in a condition, which
\* python_bridge.py leaves unanswered.
C32_DifferencesAre ==
    C32_BothIdle =>
        LET p == C32_ResponseShapes(out)
            b == C32_ResponseShapes(bridge.out)
            keep(s) == ~C32_OnlyBridgeAnswers(s)
        IN  SelectSeq(b, keep) = [i \in DOMAIN p |-> C32_AsBridge(p[i])]

====
